---- MODULE Spec2Model ----
(***************************************************************************)
(* Model of the baro_backend reputation ("manner temperature") update and  *)
(* of the facility / party ranking functions.                              *)
(*                                                                         *)
(* Scores are Python floats in the source.  Here a score is an integer     *)
(* number of hundredths of a degree (36.5 is 3650), so that a value with   *)
(* two decimals can be told apart from its rounding to one decimal.        *)
(***************************************************************************)
EXTENDS Integers, Sequences, FiniteSets, TLC

\* ------------------------------------------------------------------ bounds
\* longest ratings list of one submit_feedback request
MaxRatings == 2
\* submit_feedback requests the single worker serves one after another
MaxCalls == 2
\* longest ratings list of each of the two requests in flight together
RaceMaxRatings == 1
\* longest ratings list handed to _update_manner_temp on its own
FnMaxLen == 4
\* most rows a fetch of facilities or parties returns
MaxRows == 3
ReadOnlyRatings == 1
MaxStepRows == 2
\* create_party, join_party and leave_party requests served in a row
MaxPartyCalls == 5
\* join_party and leave_party requests made while others are in flight
RacePartyCalls == 3
\* user messages handed to the agent one after another
MaxMessages == 2

\* ------------------------------------------------------- program constants
\* repository.py:43  max(0, min(99, new_temp)), in hundredths
TEMP_MIN == 0
TEMP_MAX == 9900
\* bot/graph.py:144  stop_after_attempt(3)
MAX_ATTEMPTS == 3
\* repository.py:17  feedback can be given for 2 days after the party ends
FEEDBACK_AVAILABLE_DAYS == 2
\* repository.py:242  current_temp = 36.5 when the column is null
DEFAULT_TEMP == 3650
\* repository.py:37  delta = (total - 3 * n) / n
NEUTRAL == 3

\* db.py:146-151  the weights, in thousandths
W_DIST == 200
W_PREF == 200
W_AGE == 200
W_GENDER == 200
W_INTENSITY == 50
W_AGE_SPORTS == 50
\* db.py:173  D_MAX = 5.0 km, in metres
D_MAX == 5000

\* ------------------------------------------------------------- the store
Users == {"u1", "u2"}
Parties == {"p1"}
\* the signed-in users who send requests
Raters == {"u1"}
\* HTTP requests in flight
Procs == {"c1", "c2"}

\* user_profile.sportsmanship: NoRow = no user_profile row for the id,
\* Null = the column is null
NoRow == -2
Null == -1

\* star ratings a request may carry (MemberRating.rating is any int)
RatingValues == {1, 5}
\* star ratings handed to _update_manner_temp on its own
FnRatingValues == 1..5
\* current_temp values handed to _update_manner_temp on its own
FnScores == {-250, 0, 50, 3650, 3655, 3660, 9850, 9900, 12000}

VARIABLES
    user_profile,    \* app.user_profile: user id -> sportsmanship | Null | NoRow
    party_member,    \* app.party_member: set of rows [id, party_id, user_id, status]
    feedback,        \* app.feedback: set of <<party_id, from, to, score>>
    pc,              \* position of each submit_feedback request
    arg_party,       \* party_id of the request
    arg_rater,       \* rater_id of the request: the signed-in user
    arg_ratings,     \* ratings of the request: Seq of [user_id, rating]
    feedback0,       \* the keys of app.feedback when the request was submitted
    ratee_to_scores, \* repository.py:211 dict, in insertion order
    idx,             \* position of the loop of repository.py:216
    current_temp,    \* repository.py:240-242
    new_temp,        \* repository.py:245
    result,          \* "none" | "ok" (returned) | "error" (raised)
    io,              \* requests on user_profile this call has issued
    submitted,       \* the requests in the order they were submitted
    profile0,        \* app.user_profile before the first request
    fn_cur,          \* _update_manner_temp called on its own: current_temp
    fn_ratings,      \* ... ratings
    fn_out,          \* ... returned value, Null before the call
    rank_call,       \* "none" | the ranking function that was called
    rank_args,       \* its arguments and the rows its fetches return
    rank_ret,        \* what it returned, or that it raised
    rank_after,      \* the caller's lists and the fetched rows after the call
    rank_pc,         \* position of a get_profiled_facilities call in steps
    rank_log,        \* what that call has done so far, in order
    party_tbl,       \* the party table: party id -> [exists, current, end_at]
    my_args,         \* a get_my_parties call: its user, its clock, its failure
    my_ret,          \* what it returned, or that it raised
    p_pc,            \* position of each create/join/leave request
    p_op,            \* "create_party" | "join_party" | "leave_party"
    p_user,          \* the signed-in user of the request
    p_existing,      \* party/repository.py:207, 261  the rows the select gave
    p_count,         \* party/repository.py:245, 290  joined_count
    p_ret,           \* the Party the request returned
    p_log,           \* the requests on the tables the call has issued
    p_calls,         \* how many create/join/leave requests have been made
    bot_pc,          \* position of an invoke_agent_with_retry call
    bot_log,         \* the outcome of each agent.invoke of the call, in order
    bot_ret          \* what the call returned or raised

feedbackVars == <<user_profile, party_member, feedback, pc, arg_party, arg_rater,
                  feedback0,
                  arg_ratings, ratee_to_scores, idx, current_temp, new_temp,
                  result, io, submitted, profile0>>
fnVars == <<fn_cur, fn_ratings, fn_out>>
callVars == <<arg_party, arg_rater, arg_ratings, feedback0, ratee_to_scores, idx,
              current_temp, new_temp, io>>
rankVars == <<rank_call, rank_args, rank_ret, rank_after, rank_pc, rank_log>>
myVars == <<my_args, my_ret>>
partyVars == <<party_tbl, p_pc, p_op, p_user, p_existing, p_count, p_ret, p_log, p_calls>>
botVars == <<bot_pc, bot_log, bot_ret>>
restVars == <<myVars, partyVars, botVars>>
vars == <<feedbackVars, fnVars, rankVars, restVars>>

\* ------------------------------------------------------------ pure helpers
RECURSIVE Sum(_)
Sum(s) == IF s = <<>> THEN 0 ELSE Head(s) + Sum(Tail(s))

\* all sequences over S of length 0..n
SeqsUpTo(S, n) == UNION {[1..k -> S] : k \in 0..n}

\* round(x, 1) of the non-negative rational num/den hundredths: the nearest
\* multiple of 10 hundredths.  At an exact decimal tie the binary64 operand
\* lies on either side of the tie depending on its representation error, so
\* both neighbours are outcomes.
Round1(num, den) ==
    LET q == num \div (10 * den)
        r == num % (10 * den)
    IN  IF 2 * r < 10 * den THEN {10 * q}
        ELSE IF 2 * r > 10 * den THEN {10 * (q + 1)}
        ELSE {10 * q, 10 * (q + 1)}

\* _update_manner_temp with one step changed: the neutral rating, the division
\* of the delta by n, the clamp, the early return on an empty list
update_manner_temp_variant(cur, ratings, neutral, divide, clamp, guard) ==
    IF ratings = <<>> /\ guard THEN {cur}
    ELSE LET n == IF divide /\ ratings # <<>> THEN Len(ratings) ELSE 1
             num == cur * n + 100 * (Sum(ratings) - neutral * Len(ratings))
             clamped == IF ~clamp THEN num
                        ELSE IF num > TEMP_MAX * n THEN TEMP_MAX * n
                        ELSE IF num < TEMP_MIN * n THEN TEMP_MIN * n
                        ELSE num
         IN  Round1(clamped, n)

update_manner_temp_unclamped(cur, ratings) ==
    update_manner_temp_variant(cur, ratings, 3, TRUE, FALSE, TRUE)

update_manner_temp_undivided(cur, ratings) ==
    update_manner_temp_variant(cur, ratings, 3, FALSE, TRUE, TRUE)

update_manner_temp_unguarded(cur, ratings) ==
    update_manner_temp_variant(cur, ratings, 3, TRUE, TRUE, FALSE)

update_manner_temp_neutral2(cur, ratings) ==
    update_manner_temp_variant(cur, ratings, 2, TRUE, TRUE, TRUE)

\* repository.py:20-46.  The set of values the call can return.
update_manner_temp(cur, ratings) ==
    IF ratings = <<>> THEN {cur}
    ELSE LET n == Len(ratings)
             total == Sum(ratings)
             \* new_temp = current_temp + delta, as a fraction over n
             num == cur * n + 100 * (total - NEUTRAL * n)
             clamped == IF num > TEMP_MAX * n THEN TEMP_MAX * n
                        ELSE IF num < TEMP_MIN * n THEN TEMP_MIN * n
                        ELSE num
         IN  Round1(clamped, n)

\* ------------------------------------------- _update_manner_temp on its own
\* no ranking call made
RankIdle ==
    /\ rank_call = "none"
    /\ rank_args = <<>>
    /\ rank_ret = <<>>
    /\ rank_after = <<>>
    /\ rank_pc = "idle"
    /\ rank_log = <<>>

\* no call made
FnIdle ==
    /\ fn_cur = 0
    /\ fn_ratings = <<>>
    /\ fn_out = Null

\* end_at of a party row: an ISO text with an offset ("aware"), one without
\* (the format of schemas.py:18, "naive"), a text that is no timestamp
\* ("text") or null; t is the day the text names
EndAt(kind, t) == [kind |-> kind, t |-> t]

\* a row of the party table (party/repository.py:167-182), and the entry of
\* an id that has no row
PartyRecord(current, end_at) ==
    [exists |-> TRUE, current |-> current, end_at |-> end_at]

NoParty == [exists |-> FALSE, current |-> 0, end_at |-> EndAt("null", 0)]

\* the joined rows of a party (party/repository.py:245, 290)
JoinedRows(table, p) ==
    {row \in table : row.party_id = p /\ row.status = "joined"}

\* no get_my_parties call made
MyIdle ==
    /\ my_args = <<>>
    /\ my_ret = <<>>

\* no create_party, join_party or leave_party request in flight
PartyIdle ==
    /\ p_pc = [c \in Procs |-> "idle"]
    /\ p_op = [c \in Procs |-> "none"]
    /\ p_user = [c \in Procs |-> "u1"]
    /\ p_existing = [c \in Procs |-> {}]
    /\ p_count = [c \in Procs |-> 0]
    /\ p_ret = [c \in Procs |-> <<>>]
    /\ p_log = [c \in Procs |-> <<>>]
    /\ p_calls = 0

\* no invoke_agent_with_retry call made
BotIdle ==
    /\ bot_pc = "idle"
    /\ bot_log = <<>>
    /\ bot_ret = "none"

\* the party of the member rows is stored with their count
RestIdle ==
    /\ party_tbl = [p \in Parties |->
                       PartyRecord(Cardinality(JoinedRows(party_member, p)),
                                   EndAt("aware", 10))]
    /\ MyIdle
    /\ PartyIdle
    /\ BotIdle

\* the arguments of the call
InitFn ==
    /\ fn_cur \in FnScores
    /\ fn_ratings \in SeqsUpTo(FnRatingValues, FnMaxLen)
    /\ fn_out = Null

CallUpdateMannerTemp ==
    /\ fn_out = Null
    /\ fn_out' \in update_manner_temp(fn_cur, fn_ratings)
    /\ UNCHANGED <<fn_cur, fn_ratings>>
    /\ UNCHANGED <<feedbackVars, rankVars, restVars>>

\* ------------------------------------------------------ submit_feedback
\* repository.py:211-213  ratee_to_scores.setdefault(user_id, []).append(rating)
\* a dict in insertion order: a sequence of [user_id, scores]
RECURSIVE GroupInto(_, _)
GroupInto(acc, ratings) ==
    IF ratings = <<>> THEN acc
    ELSE LET r == Head(ratings)
             at == {i \in 1..Len(acc) : acc[i].user_id = r.user_id}
         IN  IF at = {}
             THEN GroupInto(Append(acc, [user_id |-> r.user_id,
                                         scores |-> <<r.rating>>]),
                            Tail(ratings))
             ELSE GroupInto([i \in 1..Len(acc) |->
                                IF i \in at
                                THEN [acc[i] EXCEPT !.scores = Append(@, r.rating)]
                                ELSE acc[i]],
                            Tail(ratings))

GroupByRatee(ratings) == GroupInto(<<>>, ratings)

\* repository.py:190-206  upsert of one row per rating, keyed by
\* (party_id, from_user_id, to_user_id) as the comment of line 204 asks;
\* the last row of a key wins
RECURSIVE UpsertRows(_, _, _, _)
UpsertRows(table, party, rater, ratings) ==
    IF ratings = <<>> THEN table
    ELSE LET r == Head(ratings)
             kept == {row \in table :
                         ~(row[1] = party /\ row[2] = rater /\ row[3] = r.user_id)}
         IN  UpsertRows(kept \cup {<<party, rater, r.user_id, r.rating>>},
                        party, rater, Tail(ratings))

MemberRatings == [user_id : Users, rating : RatingValues]

\* a row of party_member (party/repository.py:187-195, 222-229)
MemberRow(id, party, user, status) ==
    [id |-> id, party_id |-> party, user_id |-> user, status |-> status]

\* the rows of party_member of one party and user
MemberRowsOf(table, party, user) ==
    {row \in table : row.party_id = party /\ row.user_id = user}

\* no request in flight
Idle ==
    /\ pc = [c \in Procs |-> "idle"]
    /\ arg_party = [c \in Procs |-> "p1"]
    /\ arg_rater = [c \in Procs |-> "u1"]
    /\ arg_ratings = [c \in Procs |-> <<>>]
    /\ feedback0 = [c \in Procs |-> {}]
    /\ ratee_to_scores = [c \in Procs |-> <<>>]
    /\ idx = [c \in Procs |-> 0]
    /\ current_temp = [c \in Procs |-> Null]
    /\ new_temp = [c \in Procs |-> Null]
    /\ result = [c \in Procs |-> "none"]
    /\ io = [c \in Procs |-> <<>>]

\* the store before the first request: u1 has a profile row, u2 may have
\* none; the one row of party_member is of u1, who has joined p1 or has
\* left it, or of u2
InitStore ==
    /\ user_profile \in {f \in [Users -> {NoRow, Null, 50, 9850}] :
                            f["u1"] # NoRow /\ f["u2"] # 50}
    /\ profile0 = user_profile
    /\ party_member \in {{MemberRow(1, "p1", "u1", "joined")},
                          {MemberRow(1, "p1", "u1", "left")},
                          {MemberRow(1, "p1", "u2", "joined")}}
    /\ feedback = {}
    /\ submitted = <<>>

InitFeedback == InitStore /\ Idle

\* the call returns or raises
Finish(c, how) ==
    /\ pc' = [pc EXCEPT ![c] = "done"]
    /\ result' = [result EXCEPT ![c] = how]

\* repository.py:168-175  entry of submit_feedback
Submit(c, longest) ==
    /\ pc[c] = "idle"
    /\ \E party \in Parties, rater \in Raters,
          ratings \in SeqsUpTo(MemberRatings, longest) :
        /\ arg_party' = [arg_party EXCEPT ![c] = party]
        /\ arg_rater' = [arg_rater EXCEPT ![c] = rater]
        /\ arg_ratings' = [arg_ratings EXCEPT ![c] = ratings]
        /\ feedback0' = [feedback0 EXCEPT ![c] =
                             {<<row[1], row[2], row[3]>> : row \in feedback}]
        /\ submitted' = Append(submitted, c)
        /\ IF ratings = <<>>
           THEN Finish(c, "ok")
           ELSE /\ pc' = [pc EXCEPT ![c] = "membership"]
                /\ UNCHANGED result
    /\ UNCHANGED <<user_profile, party_member, feedback, ratee_to_scores, idx,
                   current_temp, new_temp, io, profile0>>
    /\ UNCHANGED <<fnVars, rankVars, restVars>>

\* the membership of the rater not looked at
CheckMembership_unchecked(c) ==
    /\ pc[c] = "membership"
    /\ \E fails \in BOOLEAN :
        IF fails
        THEN Finish(c, "error")
        ELSE /\ pc' = [pc EXCEPT ![c] = "upsert"]
             /\ UNCHANGED result
    /\ UNCHANGED <<user_profile, party_member, feedback, arg_party, arg_rater, feedback0,
                   arg_ratings,
                   ratee_to_scores, idx, current_temp, new_temp, io, submitted,
                   profile0>>
    /\ UNCHANGED <<fnVars, rankVars, restVars>>

\* repository.py:177-187  the select of the rater's row of the party, of
\* any status; .single() gives an error when the request fails or does not
\* match exactly one row
CheckMembership(c) ==
    /\ pc[c] = "membership"
    /\ \E fails \in BOOLEAN :
        IF fails
           \/ Cardinality(MemberRowsOf(party_member, arg_party[c],
                                       arg_rater[c])) # 1
        THEN Finish(c, "error")
        ELSE /\ pc' = [pc EXCEPT ![c] = "upsert"]
             /\ UNCHANGED result
    /\ UNCHANGED <<user_profile, party_member, feedback, arg_party, arg_rater, feedback0,
                   arg_ratings,
                   ratee_to_scores, idx, current_temp, new_temp, io, submitted,
                   profile0>>
    /\ UNCHANGED <<fnVars, rankVars, restVars>>

\* repository.py:189-213  the upsert, then the grouping by ratee
UpsertFeedback(c) ==
    /\ pc[c] = "upsert"
    /\ \E fails \in BOOLEAN :
        IF fails
        THEN /\ Finish(c, "error")
             /\ UNCHANGED <<feedback, ratee_to_scores, idx>>
        ELSE /\ feedback' = UpsertRows(feedback, arg_party[c], arg_rater[c],
                                       arg_ratings[c])
             /\ ratee_to_scores' = [ratee_to_scores EXCEPT
                                       ![c] = GroupByRatee(arg_ratings[c])]
             /\ idx' = [idx EXCEPT ![c] = 1]
             /\ pc' = [pc EXCEPT ![c] = "read"]
             /\ UNCHANGED result
    /\ UNCHANGED <<user_profile, party_member, arg_party, arg_rater, feedback0, arg_ratings,
                   current_temp, new_temp, io, submitted, profile0>>
    /\ UNCHANGED <<fnVars, rankVars, restVars>>

\* repository.py:216-217  the next ratee of the loop, or the return
NextRatee(c) ==
    IF idx[c] < Len(ratee_to_scores[c])
    THEN /\ idx' = [idx EXCEPT ![c] = @ + 1]
         /\ pc' = [pc EXCEPT ![c] = "read"]
         /\ UNCHANGED result
    ELSE /\ Finish(c, "ok")
         /\ UNCHANGED idx

\* the baseline forgotten: a null column read as 0
CurrentTemp_zero(stored) == IF stored = Null THEN 0 ELSE stored

\* repository.py:240-242  the baseline when the column is null
CurrentTemp(stored) == IF stored = Null THEN DEFAULT_TEMP ELSE stored

\* repository.py:228-245  the select of the ratee's sportsmanship; on an
\* error (the request fails, or no row has the id) the update of this ratee
\* is given up without a word
ReadTemp(c) ==
    /\ pc[c] = "read"
    /\ LET ratee == ratee_to_scores[c][idx[c]]
           stored == user_profile[ratee.user_id]
       IN  \E fails \in BOOLEAN :
            IF fails \/ stored = NoRow
            THEN /\ io' = [io EXCEPT ![c] = Append(@,
                              [op |-> "read", user_id |-> ratee.user_id,
                               ok |-> FALSE, value |-> Null])]
                 /\ NextRatee(c)
                 /\ UNCHANGED <<current_temp, new_temp>>
            ELSE LET cur == CurrentTemp(stored)
                 IN  /\ io' = [io EXCEPT ![c] = Append(@,
                                  [op |-> "read", user_id |-> ratee.user_id,
                                   ok |-> TRUE, value |-> stored])]
                     /\ current_temp' = [current_temp EXCEPT ![c] = cur]
                     /\ \E t \in update_manner_temp(cur, ratee.scores) :
                            new_temp' = [new_temp EXCEPT ![c] = t]
                     /\ pc' = [pc EXCEPT ![c] = "write"]
                     /\ UNCHANGED <<idx, result>>
    /\ UNCHANGED <<user_profile, party_member, feedback, arg_party, arg_rater, feedback0,
                   arg_ratings,
                   ratee_to_scores, submitted, profile0>>
    /\ UNCHANGED <<fnVars, rankVars, restVars>>

\* repository.py:247-252  the update of the ratee's sportsmanship; its
\* response is dropped, so a failed request goes unnoticed
WriteTemp(c) ==
    /\ pc[c] = "write"
    /\ LET ratee == ratee_to_scores[c][idx[c]]
       IN  \E fails \in BOOLEAN :
            /\ user_profile' =
                   IF fails \/ user_profile[ratee.user_id] = NoRow
                   THEN user_profile
                   ELSE [user_profile EXCEPT ![ratee.user_id] = new_temp[c]]
            /\ io' = [io EXCEPT ![c] = Append(@,
                         [op |-> "write", user_id |-> ratee.user_id,
                          ok |-> ~fails, value |-> new_temp[c]])]
    /\ NextRatee(c)
    /\ UNCHANGED <<party_member, feedback, arg_party, arg_rater, feedback0,
                   arg_ratings,
                   ratee_to_scores, current_temp, new_temp, submitted, profile0>>
    /\ UNCHANGED <<fnVars, rankVars, restVars>>

\* the worker takes the next request
Return(c) ==
    /\ pc[c] = "done"
    /\ Len(submitted) < MaxCalls
    /\ pc' = [pc EXCEPT ![c] = "idle"]
    /\ arg_party' = [arg_party EXCEPT ![c] = "p1"]
    /\ arg_rater' = [arg_rater EXCEPT ![c] = "u1"]
    /\ arg_ratings' = [arg_ratings EXCEPT ![c] = <<>>]
    /\ feedback0' = [feedback0 EXCEPT ![c] = {}]
    /\ ratee_to_scores' = [ratee_to_scores EXCEPT ![c] = <<>>]
    /\ idx' = [idx EXCEPT ![c] = 0]
    /\ current_temp' = [current_temp EXCEPT ![c] = Null]
    /\ new_temp' = [new_temp EXCEPT ![c] = Null]
    /\ result' = [result EXCEPT ![c] = "none"]
    /\ io' = [io EXCEPT ![c] = <<>>]
    /\ UNCHANGED <<user_profile, party_member, feedback, submitted, profile0>>
    /\ UNCHANGED <<fnVars, rankVars, restVars>>

\* ------------------------------------------------- db.py: the rankings
\* A text is a sequence of one-character strings.  Distances are metres,
\* scores are thousandths.  Every point lies on the user's meridian, where
\* the great-circle distance is the difference of the latitudes, so a
\* latitude is given in metres north of the equator.

\* a coordinate field that float() rejects (None, or a non-numeric string)
BadCoord == -1
\* age is None
NoAge == -1

\* str.lower on the letters in use
Lower(ch) == IF ch = "A" THEN "a" ELSE IF ch = "B" THEN "b" ELSE ch

\* db.py:45-46  (text or "").replace(" ", "").lower(); None is <<>>
norm(text) ==
    LET kept == SelectSeq(text, LAMBDA ch : ch # " ")
    IN  [i \in 1..Len(kept) |-> Lower(kept[i])]

\* Python's  needle in hay  on str
Contains(needle, hay) ==
    \E i \in 0..(Len(hay) - Len(needle)) :
        SubSeq(hay, i + 1, i + Len(needle)) = needle

\* db.py:49-63
age_to_band(age) ==
    IF age < 20 THEN "10s"
    ELSE IF age < 30 THEN "20s"
    ELSE IF age < 40 THEN "30s"
    ELSE IF age < 50 THEN "40s"
    ELSE IF age < 60 THEN "50s"
    ELSE IF age < 70 THEN "60s"
    ELSE "70s+"

\* db.py:31-42 on one meridian
haversine(lat1, lon1, lat2, lon2) ==
    IF lat2 >= lat1 THEN lat2 - lat1 ELSE lat1 - lat2

\* round(x, ndigits) of the non-negative num/den to the nearest whole unit;
\* no value of the model falls on a tie
RoundDiv(num, den) == (2 * num + den) \div (2 * den)

\* db.py:83-89  the dict sports_nm -> intensity, in insertion order; a name
\* seen again keeps its place and takes the new intensity
RECURSIVE BuildMapping(_, _)
BuildMapping(mapping, rows) ==
    IF rows = <<>> THEN mapping
    ELSE LET row == Head(rows)
             key == norm(row.sports_nm)
             at == {i \in 1..Len(mapping) : mapping[i].key = key}
         IN  IF row.sports_nm = <<>> \/ row.intensity = ""
             THEN BuildMapping(mapping, Tail(rows))
             ELSE IF at = {}
             THEN BuildMapping(Append(mapping, [key |-> key,
                                               inten |-> row.intensity]),
                               Tail(rows))
             ELSE BuildMapping([i \in 1..Len(mapping) |->
                                   IF i \in at
                                   THEN [mapping[i] EXCEPT !.inten = row.intensity]
                                   ELSE mapping[i]],
                               Tail(rows))

fetch_exercise_methods(rows) == BuildMapping(<<>>, rows)

\* db.py:92-117  the sports of the sports_pref rows of one age band and
\* gender, already split at the commas and stripped
fetch_age_gender_pref_sports(table, age_band, gender) ==
    UNION {row.sports : row \in {r \in table : r.ages = age_band
                                               /\ r.gender = gender}}

\* the last key of the mapping found in the facility's type, as a loop
\* without the break of db.py:206 would leave it
FacilityIntensity_last(intensity_map, ftype_nm) ==
    LET hits == {i \in 1..Len(intensity_map) :
                    Contains(intensity_map[i].key, norm(ftype_nm))}
    IN  IF hits = {} THEN ""
        ELSE intensity_map[CHOOSE i \in hits : \A j \in hits : i >= j].inten

\* db.py:199-208  the first key of the mapping found in the facility's type
FacilityIntensity(intensity_map, ftype_nm) ==
    LET hits == {i \in 1..Len(intensity_map) :
                    Contains(intensity_map[i].key, norm(ftype_nm))}
    IN  IF hits = {} THEN ""
        ELSE intensity_map[CHOOSE i \in hits : \A j \in hits : i <= j].inten

\* ScoreFacility with one line changed: floor_dist FALSE drops the max(0, .)
\* of the distance score, renormalize TRUE divides the total by the sum of
\* the weights, gender_own TRUE scores gender by the gender being supplied
ScoreFacility_variant(row, a, intensity_map, pref_sports,
                      floor_dist, renormalize, gender_own) ==
    LET distance == haversine(a.user_lat, a.user_lon, row.faci_lat, row.faci_lot)
        dist_num == IF floor_dist /\ D_MAX - distance <= 0 THEN 0
                    ELSE D_MAX - distance
        pref == IF \E i \in 1..Len(a.preferred_sports) :
                       Contains(norm(a.preferred_sports[i]), norm(row.ftype_nm))
                THEN 1 ELSE 0
        demo == IF \E sp \in pref_sports : Contains(norm(sp), norm(row.ftype_nm))
                THEN 1 ELSE 0
        gender == IF gender_own THEN (IF a.gender # "" THEN 1 ELSE 0) ELSE demo
        facility_intensity == FacilityIntensity(intensity_map, row.ftype_nm)
        inten == IF a.preferred_intensity # ""
                    /\ facility_intensity # ""
                    /\ facility_intensity = a.preferred_intensity
                 THEN 1 ELSE 0
        sum_num == W_DIST * dist_num
                   + D_MAX * (W_PREF * pref + W_AGE * demo + W_GENDER * gender
                              + W_INTENSITY * inten + W_AGE_SPORTS * demo)
        total_num == IF renormalize THEN 10 * sum_num ELSE sum_num
        total_den == IF renormalize THEN 9 * D_MAX ELSE D_MAX
        dist_shown == IF dist_num >= 0 THEN RoundDiv(1000 * dist_num, D_MAX)
                      ELSE 0 - RoundDiv(1000 * (0 - dist_num), D_MAX)
    IN  [faci_cd |-> row.faci_cd,
         ftype_nm |-> row.ftype_nm,
         inout_gbn_nm |-> row.inout_gbn_nm,
         faci_lat |-> row.faci_lat,
         faci_lot |-> row.faci_lot,
         distance_km |-> 10 * RoundDiv(distance, 10),
         score |-> IF total_num >= 0 THEN RoundDiv(total_num, total_den)
                   ELSE 0 - RoundDiv(0 - total_num, total_den),
         detail_scores |-> [distance |-> dist_shown,
                            preferred_sport |-> pref,
                            age |-> demo,
                            gender |-> gender,
                            intensity |-> inten,
                            age_sports |-> demo]]

ScoreFacility_unfloored(row, a, intensity_map, pref_sports) ==
    ScoreFacility_variant(row, a, intensity_map, pref_sports, FALSE, FALSE, FALSE)

ScoreFacility_renormalized(row, a, intensity_map, pref_sports) ==
    ScoreFacility_variant(row, a, intensity_map, pref_sports, TRUE, TRUE, FALSE)

ScoreFacility_gender_own(row, a, intensity_map, pref_sports) ==
    ScoreFacility_variant(row, a, intensity_map, pref_sports, TRUE, FALSE, TRUE)

\* db.py:169-239  one scored facility
ScoreFacility(row, a, intensity_map, pref_sports) ==
    LET distance == haversine(a.user_lat, a.user_lon, row.faci_lat, row.faci_lot)
        \* dist_score = max(0, (D_MAX - distance) / D_MAX), times D_MAX
        dist_num == IF D_MAX - distance > 0 THEN D_MAX - distance ELSE 0
        pref == IF \E i \in 1..Len(a.preferred_sports) :
                       Contains(norm(a.preferred_sports[i]), norm(row.ftype_nm))
                THEN 1 ELSE 0
        demo == IF \E sp \in pref_sports : Contains(norm(sp), norm(row.ftype_nm))
                THEN 1 ELSE 0
        facility_intensity == FacilityIntensity(intensity_map, row.ftype_nm)
        inten == IF a.preferred_intensity # ""
                    /\ facility_intensity # ""
                    /\ facility_intensity = a.preferred_intensity
                 THEN 1 ELSE 0
        total_num == W_DIST * dist_num
                     + D_MAX * (W_PREF * pref + W_AGE * demo + W_GENDER * demo
                                + W_INTENSITY * inten + W_AGE_SPORTS * demo)
    IN  [faci_cd |-> row.faci_cd,
         ftype_nm |-> row.ftype_nm,
         inout_gbn_nm |-> row.inout_gbn_nm,
         faci_lat |-> row.faci_lat,
         faci_lot |-> row.faci_lot,
         distance_km |-> 10 * RoundDiv(distance, 10),
         score |-> RoundDiv(total_num, D_MAX),
         detail_scores |-> [distance |-> RoundDiv(1000 * dist_num, D_MAX),
                            preferred_sport |-> pref,
                            age |-> demo,
                            gender |-> demo,
                            intensity |-> inten,
                            age_sports |-> demo]]

\* the loop without the indoor-only test of db.py:161
RECURSIVE ScoreAll_ungated(_, _, _, _, _)
ScoreAll_ungated(rows, a, indoor_only, intensity_map, pref_sports) ==
    IF rows = <<>> THEN <<>>
    ELSE LET row == Head(rows)
             rest == ScoreAll_ungated(Tail(rows), a, indoor_only, intensity_map,
                                      pref_sports)
         IN  IF row.faci_lat = BadCoord \/ row.faci_lot = BadCoord THEN rest
             ELSE <<ScoreFacility(row, a, intensity_map, pref_sports)>> \o rest

\* db.py:160-239  the loop over the fetched rows
RECURSIVE ScoreAll(_, _, _, _, _)
ScoreAll(rows, a, indoor_only, intensity_map, pref_sports) ==
    IF rows = <<>> THEN <<>>
    ELSE LET row == Head(rows)
             rest == ScoreAll(Tail(rows), a, indoor_only, intensity_map,
                              pref_sports)
         IN  IF indoor_only /\ row.inout_gbn_nm # "indoor" THEN rest
             ELSE IF row.faci_lat = BadCoord \/ row.faci_lot = BadCoord THEN rest
             ELSE <<ScoreFacility(row, a, intensity_map, pref_sports)>> \o rest

\* a sort that puts an element before its equals (a sort by rising key,
\* then reversed, does so)
RECURSIVE SortByKey_unstable(_, _, _)
SortByKey_unstable(list, key, reverse) ==
    IF list = <<>> THEN <<>>
    ELSE LET sorted == SortByKey_unstable(SubSeq(list, 1, Len(list) - 1), key,
                                          reverse)
             x == list[Len(list)]
             before == {i \in 1..Len(sorted) :
                           IF reverse THEN sorted[i][key] > x[key]
                           ELSE sorted[i][key] < x[key]}
             k == IF before = {} THEN 0
                  ELSE CHOOSE i \in before : \A j \in before : j <= i
         IN  SubSeq(sorted, 1, k) \o <<x>> \o SubSeq(sorted, k + 1, Len(sorted))

\* a sort that ignores its key and keeps the list as built
SortByKey_unsorted(list, key, reverse) == list

\* list.sort(key=lambda x: x[key]): a stable sort, by falling key when reverse
RECURSIVE SortByKey(_, _, _)
SortByKey(list, key, reverse) ==
    IF list = <<>> THEN <<>>
    ELSE LET sorted == SortByKey(SubSeq(list, 1, Len(list) - 1), key, reverse)
             x == list[Len(list)]
             \* x goes after every element that does not sort after it
             before == {i \in 1..Len(sorted) :
                           IF reverse THEN sorted[i][key] >= x[key]
                           ELSE sorted[i][key] <= x[key]}
             k == IF before = {} THEN 0
                  ELSE CHOOSE i \in before : \A j \in before : j <= i
         IN  SubSeq(sorted, 1, k) \o <<x>> \o SubSeq(sorted, k + 1, Len(sorted))

\* Python's  list[:limit]
SliceTo(list, limit) ==
    IF limit >= 0
    THEN SubSeq(list, 1, IF limit < Len(list) THEN limit ELSE Len(list))
    ELSE SubSeq(list, 1, IF Len(list) + limit > 0 THEN Len(list) + limit ELSE 0)

\* app.modules.bot.weather.is_indoor_only: the weather gate of the user's
\* coordinate, a boolean resolved outside this module
is_indoor_only(a) == a.weather_indoor_only

\* db.py:132-242  the scored facilities, sorted by falling score
RankedFacilities(a) ==
    LET intensity_map == fetch_exercise_methods(a.exercise_methods)
        indoor_only == is_indoor_only(a)
        pref_sports == IF a.age # NoAge /\ a.gender # ""
                       THEN fetch_age_gender_pref_sports(a.sports_pref,
                                                         age_to_band(a.age),
                                                         a.gender)
                       ELSE {}
    IN  SortByKey(ScoreAll(a.facilities, a, indoor_only, intensity_map,
                           pref_sports),
                  "score", TRUE)

\* the call without the try/except around float(): a bad coordinate raises
get_profiled_facilities_strict(a) ==
    IF a.fails \in {"facilities", "exercise_methods", "weather"}
       \/ (a.fails = "sports_pref" /\ a.age # NoAge /\ a.gender # "")
       \/ \E i \in 1..Len(a.facilities) :
              /\ ~(is_indoor_only(a) /\ a.facilities[i].inout_gbn_nm # "indoor")
              /\ (a.facilities[i].faci_lat = BadCoord
                  \/ a.facilities[i].faci_lot = BadCoord)
    THEN [raised |-> TRUE, indoor_only |-> FALSE, list |-> <<>>]
    ELSE [raised |-> FALSE,
          indoor_only |-> is_indoor_only(a),
          list |-> SliceTo(RankedFacilities(a), a.limit)]

\* db.py:119-246; a fetch that fails raises (db.py:26-27, 79-80, 104-105)
get_profiled_facilities(a) ==
    IF a.fails \in {"facilities", "exercise_methods", "weather"}
       \/ (a.fails = "sports_pref" /\ a.age # NoAge /\ a.gender # "")
    THEN [raised |-> TRUE, indoor_only |-> FALSE, list |-> <<>>]
    ELSE [raised |-> FALSE,
          indoor_only |-> is_indoor_only(a),
          list |-> SliceTo(RankedFacilities(a), a.limit)]

\* the loop dropping a party at max_distance_km too (>= for >)
RECURSIVE NearAll_exclusive(_, _)
NearAll_exclusive(rows, a) ==
    IF rows = <<>> THEN <<>>
    ELSE LET row == Head(rows)
             rest == NearAll_exclusive(Tail(rows), a)
             distance == haversine(a.user_lat, a.user_lon, row.lat, row.lon)
         IN  IF row.lat = BadCoord \/ row.lon = BadCoord THEN rest
             ELSE IF distance >= a.max_distance_km THEN rest
             ELSE <<[id |-> row.id, lat |-> row.lat, lon |-> row.lon,
                     status |-> row.status,
                     distance_km |-> 10 * RoundDiv(distance, 10)]>> \o rest

\* db.py:281-311  the loop over the fetched party rows
RECURSIVE NearAll(_, _)
NearAll(rows, a) ==
    IF rows = <<>> THEN <<>>
    ELSE LET row == Head(rows)
             rest == NearAll(Tail(rows), a)
             distance == haversine(a.user_lat, a.user_lon, row.lat, row.lon)
         IN  IF row.lat = BadCoord \/ row.lon = BadCoord THEN rest
             ELSE IF distance > a.max_distance_km THEN rest
             ELSE <<[id |-> row.id, lat |-> row.lat, lon |-> row.lon,
                     status |-> row.status,
                     distance_km |-> 10 * RoundDiv(distance, 10)]>> \o rest

\* db.py:281-314  the parties in reach, sorted by rising distance_km
RankedParties(a) ==
    SortByKey(NearAll(a.parties, a), "distance_km", FALSE)

\* db.py:257-315; a fetch that fails raises (db.py:276-277)
get_nearby_parties(a) ==
    IF a.fails = "parties"
    THEN [raised |-> TRUE, indoor_only |-> FALSE, list |-> <<>>]
    ELSE [raised |-> FALSE, indoor_only |-> FALSE,
          list |-> SliceTo(RankedParties(a), a.limit)]

\* the texts in use: "ab", "A b" and "c"
TextAB == <<"a", "b">>
TextASpaceB == <<"A", " ", "b">>
TextC == <<"c">>

\* the rows a fetch of songpa_sports_data can return
FacilityRows ==
    {[faci_cd |-> "f1", faci_lat |-> 500, faci_lot |-> 0,
      ftype_nm |-> TextAB, inout_gbn_nm |-> "indoor"],
     [faci_cd |-> "f2", faci_lat |-> 501, faci_lot |-> 0,
      ftype_nm |-> TextC, inout_gbn_nm |-> "outdoor"],
     [faci_cd |-> "f3", faci_lat |-> 6000, faci_lot |-> 0,
      ftype_nm |-> TextASpaceB, inout_gbn_nm |-> ""],
     [faci_cd |-> "f4", faci_lat |-> BadCoord, faci_lot |-> 0,
      ftype_nm |-> TextAB, inout_gbn_nm |-> "indoor"]}

\* the rows of exercise_methods and of sports_pref
ExerciseRows ==
    <<[sports_nm |-> <<"b">>, intensity |-> "low"],
      [sports_nm |-> TextASpaceB, intensity |-> "high"],
      [sports_nm |-> TextC, intensity |-> ""]>>

SportsPrefRows ==
    {[ages |-> "20s", gender |-> "M", sports |-> {TextAB}],
     [ages |-> "70s+", gender |-> "M", sports |-> {TextC}]}

\* the rows a fetch of the recruiting parties can return
PartyRows ==
    {[id |-> "q1", lat |-> 1234, lon |-> 0, status |-> "recruiting"],
     [id |-> "q2", lat |-> 1231, lon |-> 0, status |-> "recruiting"],
     [id |-> "q3", lat |-> 5004, lon |-> 0, status |-> "recruiting"],
     [id |-> "q4", lat |-> 0, lon |-> BadCoord, status |-> "recruiting"],
     [id |-> "q5", lat |-> 3000, lon |-> 0, status |-> "recruiting"]}

\* the limits a caller passes (the tools of bot/tools.py take any int)
Limits == {-1, 0, 1, 5}

FacilityArgs ==
    [user_lat : {0, 500}, user_lon : {0},
     preferred_sports : {<<>>, <<TextASpaceB>>},
     age : {NoAge, 25},
     gender : {"", "M"},
     preferred_intensity : {"", "high", "low"},
     limit : Limits,
     weather_indoor_only : BOOLEAN,
     facilities : SeqsUpTo(FacilityRows, MaxRows),
     exercise_methods : {ExerciseRows},
     sports_pref : {SportsPrefRows},
     fails : {"none", "sports_pref"}]

PartyArgs ==
    [user_lat : {0}, user_lon : {0},
     max_distance_km : {1231, 5000},
     limit : Limits,
     parties : SeqsUpTo(PartyRows, MaxRows),
     fails : {"none", "parties"}]

\* db.py:153-158 build new lists and db.py:160-239 only read the rows: the
\* caller's preferred_sports and the fetched rows are after the call what
\* they were before it
facility_inputs_after_normalized(a) ==
    [preferred_sports |-> [i \in 1..Len(a.preferred_sports) |->
                              norm(a.preferred_sports[i])],
     facilities |-> a.facilities]

facility_inputs_after(a) ==
    [preferred_sports |-> a.preferred_sports, facilities |-> a.facilities]

\* db.py:281-315: results is a new list, the fetched rows are only read
party_inputs_after(a) == [parties |-> a.parties]

\* a call of get_profiled_facilities with arguments of S (bot/tools.py:35-43)
GetProfiledFacilitiesOf(S) ==
    /\ rank_call = "none"
    /\ rank_pc = "idle"
    /\ \E a \in S :
        /\ rank_call' = "get_profiled_facilities"
        /\ rank_args' = a
        /\ rank_ret' = get_profiled_facilities(a)
        /\ rank_after' = facility_inputs_after(a)
    /\ UNCHANGED <<rank_pc, rank_log>>
    /\ UNCHANGED <<feedbackVars, fnVars, restVars>>

GetProfiledFacilities == GetProfiledFacilitiesOf(FacilityArgs)

\* a call of get_nearby_parties with arguments of S (bot/tools.py:138-143)
GetNearbyPartiesOf(S) ==
    /\ rank_call = "none"
    /\ rank_pc = "idle"
    /\ \E a \in S :
        /\ rank_call' = "get_nearby_parties"
        /\ rank_args' = a
        /\ rank_ret' = get_nearby_parties(a)
        /\ rank_after' = party_inputs_after(a)
    /\ UNCHANGED <<rank_pc, rank_log>>
    /\ UNCHANGED <<feedbackVars, fnVars, restVars>>

GetNearbyParties == GetNearbyPartiesOf(PartyArgs)

\* ------------------------------ get_profiled_facilities, step by step
\* the call raises: nothing is returned
RaiseProfiled ==
    /\ rank_call' = "get_profiled_facilities"
    /\ rank_ret' = [raised |-> TRUE, indoor_only |-> FALSE, list |-> <<>>]
    /\ rank_after' = facility_inputs_after(rank_args)
    /\ rank_pc' = "done"
    /\ UNCHANGED <<rank_args, rank_log>>

\* a fetch whose failure is answered with a default instead of raising
FetchStep_degraded(name, next) ==
    /\ rank_pc' = next
    /\ rank_log' = IF rank_args.fails = name THEN rank_log
                   ELSE Append(rank_log, name)
    /\ UNCHANGED <<rank_call, rank_args, rank_ret, rank_after>>

\* one fetch of the call: it raises when the request fails (db.py:26-27,
\* 79-80, 104-105), else the call goes on with what was fetched
FetchStep(name, next) ==
    IF rank_args.fails = name
    THEN RaiseProfiled
    ELSE /\ rank_pc' = next
         /\ rank_log' = Append(rank_log, name)
         /\ UNCHANGED <<rank_call, rank_args, rank_ret, rank_after>>

\* entry of get_profiled_facilities (bot/tools.py:35-43)
CallProfiledFacilities(S) ==
    /\ rank_call = "none"
    /\ rank_pc = "idle"
    /\ \E a \in S : rank_args' = a
    /\ rank_pc' = "fetch_facilities"
    /\ UNCHANGED <<rank_call, rank_ret, rank_after, rank_log>>
    /\ UNCHANGED <<feedbackVars, fnVars, restVars>>

\* db.py:132  facilities = _fetch_all_facilities()
FetchAllFacilities ==
    /\ rank_pc = "fetch_facilities"
    /\ FetchStep("facilities", "fetch_exercise_methods")
    /\ UNCHANGED <<feedbackVars, fnVars, restVars>>

\* db.py:133  intensity_map = _fetch_exercise_methods()
FetchExerciseMethods ==
    /\ rank_pc = "fetch_exercise_methods"
    /\ FetchStep("exercise_methods", "is_indoor_only")
    /\ UNCHANGED <<feedbackVars, fnVars, restVars>>

\* db.py:135  indoor_only = is_indoor_only(user_lat, user_lon); a failure of
\* the weather gate is a failure of the call
IsIndoorOnly ==
    /\ rank_pc = "is_indoor_only"
    /\ FetchStep("weather", "fetch_sports_pref")
    /\ UNCHANGED <<feedbackVars, fnVars, restVars>>

\* db.py:138-143  the preference sports are fetched when age and gender
\* are both supplied
FetchAgeGenderPrefSports ==
    /\ rank_pc = "fetch_sports_pref"
    /\ IF rank_args.age # NoAge /\ rank_args.gender # ""
       THEN FetchStep("sports_pref", "score")
       ELSE /\ rank_pc' = "score"
            /\ UNCHANGED <<rank_call, rank_args, rank_ret, rank_after, rank_log>>
    /\ UNCHANGED <<feedbackVars, fnVars, restVars>>

\* db.py:153-242  the rows are scored and sorted
ScoreFacilities ==
    /\ rank_pc = "score"
    /\ rank_log' = Append(rank_log, "score")
    /\ rank_pc' = "return"
    /\ UNCHANGED <<rank_call, rank_args, rank_ret, rank_after>>
    /\ UNCHANGED <<feedbackVars, fnVars, restVars>>

\* db.py:243-246  the first limit facilities are returned with the gate
ReturnProfiled ==
    /\ rank_pc = "return"
    /\ rank_call' = "get_profiled_facilities"
    /\ rank_ret' = [raised |-> FALSE,
                    indoor_only |-> is_indoor_only(rank_args),
                    list |-> SliceTo(RankedFacilities(rank_args),
                                     rank_args.limit)]
    /\ rank_after' = facility_inputs_after(rank_args)
    /\ rank_pc' = "done"
    /\ UNCHANGED <<rank_args, rank_log>>
    /\ UNCHANGED <<feedbackVars, fnVars, restVars>>

\* ------------------------------------------ party/repository.py: parties
\* all requests of the model are on the one party p1.  A request on a table
\* is one step; a request that fails raises (auth/service.py:41-42, 51-52,
\* 63-64) and the call does not run to completion, which the model leaves
\* out.  A party id is given out by the database, so join_party and
\* leave_party are called with the id of a party that exists.
PartyOps == {"create_party", "join_party", "leave_party"}

\* the id the database gives the next party_member row
NewMemberId(table) ==
    IF table = {} THEN 1
    ELSE 1 + CHOOSE n \in {row.id : row \in table} :
                 \A row \in table : row.id <= n

\* the call goes on to its next request, having issued one
PartyStep(c, request, next) ==
    /\ p_pc' = [p_pc EXCEPT ![c] = next]
    /\ p_log' = [p_log EXCEPT ![c] = Append(@, request)]

\* party/router.py  a create_party, join_party or leave_party request
PartyCall(c, ops, most) ==
    /\ p_pc[c] \in {"idle", "done"}
    /\ p_calls < most
    /\ \E op \in ops, u \in Users :
        /\ (op = "create_party") = ~party_tbl["p1"].exists
        /\ p_op' = [p_op EXCEPT ![c] = op]
        /\ p_user' = [p_user EXCEPT ![c] = u]
        /\ p_pc' = [p_pc EXCEPT ![c] = IF op = "create_party"
                                       THEN "insert_party" ELSE "select"]
    /\ p_existing' = [p_existing EXCEPT ![c] = {}]
    /\ p_count' = [p_count EXCEPT ![c] = 0]
    /\ p_ret' = [p_ret EXCEPT ![c] = <<>>]
    /\ p_log' = [p_log EXCEPT ![c] = <<>>]
    /\ p_calls' = p_calls + 1
    /\ UNCHANGED <<party_tbl, feedbackVars, fnVars, rankVars, myVars, botVars>>

\* party/repository.py:167-183  the party is inserted with current 1; no
\* end_at is sent
InsertParty(c) ==
    /\ p_pc[c] = "insert_party"
    /\ party_tbl' = [party_tbl EXCEPT !["p1"] = PartyRecord(1, EndAt("null", 0))]
    /\ PartyStep(c, "POST party", "insert_host")
    /\ UNCHANGED <<p_op, p_user, p_existing, p_count, p_ret, p_calls>>
    /\ UNCHANGED <<feedbackVars, fnVars, rankVars, myVars, botVars>>

\* the rows of party_member with one more row of the user, joined
WithNewMember(table, u) ==
    table \cup {MemberRow(NewMemberId(table), "p1", u, "joined")}

\* party/repository.py:186-196  the host's member row is inserted
InsertHost(c) ==
    /\ p_pc[c] = "insert_host"
    /\ party_member' = WithNewMember(party_member, p_user[c])
    /\ PartyStep(c, "POST party_member", "get_party")
    /\ UNCHANGED <<user_profile, feedback, pc, callVars, result, submitted,
                   profile0>>
    /\ UNCHANGED <<party_tbl, p_op, p_user, p_existing, p_count, p_ret, p_calls>>
    /\ UNCHANGED <<fnVars, rankVars, myVars, botVars>>

\* the select that never finds the user's row
SelectExisting_blind(c) ==
    /\ p_pc[c] = "select"
    /\ p_existing' = [p_existing EXCEPT ![c] = {}]
    /\ PartyStep(c, "GET party_member",
                 IF p_op[c] = "join_party" THEN "insert_member" ELSE "get_party")
    /\ UNCHANGED <<party_tbl, p_op, p_user, p_count, p_ret, p_calls>>
    /\ UNCHANGED <<feedbackVars, fnVars, rankVars, myVars, botVars>>

\* party/repository.py:207-216, 261-273  the select of the user's row of the
\* party, limit 1: one of the rows when there are several.  join_party
\* goes on to insert a row, to set the row to joined, or to the count;
\* leave_party returns the party as it is when there is no row
SelectExisting(c) ==
    /\ p_pc[c] = "select"
    /\ LET rows == MemberRowsOf(party_member, "p1", p_user[c])
           found == IF rows = {} THEN {{}} ELSE {{row} : row \in rows}
       IN  \E existing \in found :
            /\ p_existing' = [p_existing EXCEPT ![c] = existing]
            /\ PartyStep(c, "GET party_member",
                   IF existing = {}
                   THEN (IF p_op[c] = "join_party" THEN "insert_member"
                         ELSE "get_party")
                   ELSE IF \E row \in existing :
                             (row.status = "joined") = (p_op[c] = "leave_party")
                   THEN "patch_member"
                   ELSE "count")
    /\ UNCHANGED <<party_tbl, p_op, p_user, p_count, p_ret, p_calls>>
    /\ UNCHANGED <<feedbackVars, fnVars, rankVars, myVars, botVars>>

\* party/repository.py:218-229  join_party inserts the user's row
InsertMember(c) ==
    /\ p_pc[c] = "insert_member"
    /\ party_member' = WithNewMember(party_member, p_user[c])
    /\ PartyStep(c, "POST party_member", "count")
    /\ UNCHANGED <<user_profile, feedback, pc, callVars, result, submitted,
                   profile0>>
    /\ UNCHANGED <<party_tbl, p_op, p_user, p_existing, p_count, p_ret, p_calls>>
    /\ UNCHANGED <<fnVars, rankVars, myVars, botVars>>

\* party/repository.py:231-238, 275-282  the row of the id that was read is
\* set to joined by join_party, to left by leave_party
PatchMember(c) ==
    /\ p_pc[c] = "patch_member"
    /\ LET ids == {row.id : row \in p_existing[c]}
           status == IF p_op[c] = "join_party" THEN "joined" ELSE "left"
       IN  party_member' = {IF row.id \in ids
                            THEN [row EXCEPT !.status = status]
                            ELSE row : row \in party_member}
    /\ PartyStep(c, "PATCH party_member", "count")
    /\ UNCHANGED <<user_profile, feedback, pc, callVars, result, submitted,
                   profile0>>
    /\ UNCHANGED <<party_tbl, p_op, p_user, p_existing, p_count, p_ret, p_calls>>
    /\ UNCHANGED <<fnVars, rankVars, myVars, botVars>>

\* the count of all the rows of the party, whatever their status
CountJoined_all(c) ==
    /\ p_pc[c] = "count"
    /\ p_count' = [p_count EXCEPT ![c] =
                       Cardinality({row \in party_member : row.party_id = "p1"})]
    /\ PartyStep(c, "GET party_member", "patch_current")
    /\ UNCHANGED <<party_tbl, p_op, p_user, p_existing, p_ret, p_calls>>
    /\ UNCHANGED <<feedbackVars, fnVars, rankVars, myVars, botVars>>

\* party/repository.py:240-249, 285-294  the joined rows are counted
CountJoined(c) ==
    /\ p_pc[c] = "count"
    /\ p_count' = [p_count EXCEPT ![c] =
                       Cardinality(JoinedRows(party_member, "p1"))]
    /\ PartyStep(c, "GET party_member", "patch_current")
    /\ UNCHANGED <<party_tbl, p_op, p_user, p_existing, p_ret, p_calls>>
    /\ UNCHANGED <<feedbackVars, fnVars, rankVars, myVars, botVars>>

\* party/repository.py:250-254, 295-299  current is set to the count
PatchCurrent(c) ==
    /\ p_pc[c] = "patch_current"
    /\ party_tbl' = [party_tbl EXCEPT !["p1"].current = p_count[c]]
    /\ PartyStep(c, "PATCH party", "get_party")
    /\ UNCHANGED <<p_op, p_user, p_existing, p_count, p_ret, p_calls>>
    /\ UNCHANGED <<feedbackVars, fnVars, rankVars, myVars, botVars>>

\* party/repository.py:31-75  the Party built of the member rows: current is
\* the number of joined rows, members are the joined rows
build_party(members) ==
    LET joined_members == {m \in members : m.status = "joined"}
    IN  [current |-> Cardinality(joined_members), members |-> joined_members]

\* party/repository.py:134-160  get_party: the party row and the member rows
\* are read and the Party is returned; of the party row only fields the
\* model does not have are used
GetParty(c) ==
    /\ p_pc[c] = "get_party"
    /\ p_ret' = [p_ret EXCEPT ![c] =
                     build_party({row \in party_member : row.party_id = "p1"})]
    /\ PartyStep(c, "GET party, party_member", "done")
    /\ UNCHANGED <<party_tbl, p_op, p_user, p_existing, p_count, p_calls>>
    /\ UNCHANGED <<feedbackVars, fnVars, rankVars, myVars, botVars>>

\* ------------------------------------- bot/graph.py: the agent with retry
\* what one agent.invoke does: it returns, or raises one of the two errors
\* of bot/graph.py:142 or some other exception
AgentOutcomes == {"ok", "RateLimitError", "APITimeoutError", "ValueError"}

\* bot/graph.py:142  retry_if_exception_type((RateLimitError, APITimeoutError))
Retryable == {"RateLimitError", "APITimeoutError"}

\* the attempts of the message in hand
Attempts == bot_log[Len(bot_log)]

\* bot/graph.py:158-164  run_agent calls invoke_agent_with_retry for a message
CallAgent ==
    /\ bot_pc \in {"idle", "done"}
    /\ Len(bot_log) < MaxMessages
    /\ bot_pc' = "invoke"
    /\ bot_log' = Append(bot_log, <<>>)
    /\ bot_ret' = "none"
    /\ UNCHANGED <<feedbackVars, fnVars, rankVars, myVars, partyVars>>

\* an attempt that is followed by another whatever it raised
InvokeAgent_retry_any ==
    /\ bot_pc = "invoke"
    /\ \E outcome \in AgentOutcomes :
        LET attempts == Append(Attempts, outcome)
        IN  /\ bot_log' = [bot_log EXCEPT ![Len(bot_log)] = attempts]
            /\ IF outcome # "ok" /\ Len(attempts) < MAX_ATTEMPTS
               THEN bot_pc' = "wait" /\ UNCHANGED bot_ret
               ELSE bot_pc' = "done" /\ bot_ret' = outcome
    /\ UNCHANGED <<feedbackVars, fnVars, rankVars, myVars, partyVars>>

\* bot/graph.py:141-156  one attempt: agent.invoke returns, and the call
\* returns its result; or it raises, and the call tries again when the
\* exception is one of the two of line 142 and fewer than 3 attempts were
\* made, else the exception is raised to the caller (reraise=True)
InvokeAgent ==
    /\ bot_pc = "invoke"
    /\ \E outcome \in AgentOutcomes :
        LET attempts == Append(Attempts, outcome)
        IN  /\ bot_log' = [bot_log EXCEPT ![Len(bot_log)] = attempts]
            /\ IF outcome \in Retryable /\ Len(attempts) < MAX_ATTEMPTS
               THEN bot_pc' = "wait" /\ UNCHANGED bot_ret
               ELSE bot_pc' = "done" /\ bot_ret' = outcome
    /\ UNCHANGED <<feedbackVars, fnVars, rankVars, myVars, partyVars>>

\* bot/graph.py:143  wait_exponential(multiplier=1, min=2, max=20): the call
\* sleeps, then makes the next attempt
WaitBackoff ==
    /\ bot_pc = "wait"
    /\ bot_pc' = "invoke"
    /\ UNCHANGED <<bot_log, bot_ret>>
    /\ UNCHANGED <<feedbackVars, fnVars, rankVars, myVars, partyVars>>

\* ------------------------------------------- feedback: get_my_parties
\* repository.py:97-100  the parsed end_at; what fromisoformat rejects,
\* null included, becomes now - 9999 days.  A text without an offset
\* parses to a datetime without a time zone.
ParseEndAt(end_at, now) ==
    IF end_at.kind = "aware" THEN [aware |-> TRUE, t |-> end_at.t]
    ELSE IF end_at.kind = "naive" THEN [aware |-> FALSE, t |-> end_at.t]
    ELSE [aware |-> TRUE, t |-> now - 9999]

\* the window of repository.py:105 closed one day early
FeedbackStatusOf_short(end_at, is_submitted, now) ==
    LET parsed == ParseEndAt(end_at, now)
    IN  IF is_submitted THEN "submitted"
        ELSE IF ~parsed.aware THEN "TypeError"
        ELSE IF parsed.t <= now /\ now <= parsed.t + FEEDBACK_AVAILABLE_DAYS - 1
        THEN "available"
        ELSE "expired"

\* repository.py:102-108  the status of one party; now is a datetime with
\* a time zone (line 91), and comparing it with one without raises TypeError
FeedbackStatusOf(end_at, is_submitted, now) ==
    LET parsed == ParseEndAt(end_at, now)
    IN  IF is_submitted THEN "submitted"
        ELSE IF ~parsed.aware THEN "TypeError"
        ELSE IF parsed.t <= now /\ now <= parsed.t + FEEDBACK_AVAILABLE_DAYS
        THEN "available"
        ELSE "expired"

\* repository.py:110-118  the item of one party; MyPartyFeedback declares
\* end_at: str (schemas.py:18), so a null end_at fails its validation
MyPartyItem(p, row, is_submitted, now) ==
    LET status == FeedbackStatusOf(row.end_at, is_submitted, now)
    IN  IF status = "TypeError" THEN [raised |-> "TypeError", items |-> <<>>]
        ELSE IF row.end_at.kind = "null"
        THEN [raised |-> "ValidationError", items |-> <<>>]
        ELSE [raised |-> "none",
              items |-> <<[party_id |-> p, end_at |-> row.end_at,
                           feedback_status |-> status]>>]

\* repository.py:93-121  the loop over the fetched party rows: it ends at
\* the first row that raises
RECURSIVE MyPartyItems(_, _, _, _)
MyPartyItems(ps, party_table, submitted_party_ids, now) ==
    IF ps = {} THEN [raised |-> "none", items |-> <<>>]
    ELSE LET p == CHOOSE q \in ps : TRUE
             one == MyPartyItem(p, party_table[p], p \in submitted_party_ids, now)
             rest == MyPartyItems(ps \ {p}, party_table, submitted_party_ids, now)
         IN  IF one.raised # "none" THEN one
             ELSE IF rest.raised # "none" THEN rest
             ELSE [raised |-> "none", items |-> one.items \o rest.items]

\* repository.py:54-124  a fetch that fails raises RuntimeError; a user
\* without member rows gets the empty list before the other two fetches.
\* The sort of line 123 orders the items by their end_at text: the model
\* has one party, and a list of one item is sorted.
get_my_parties(a, member_table, party_table, feedback_table) ==
    LET party_ids == {row.party_id : row \in {r \in member_table :
                                                 r.user_id = a.user_id}}
        party_res == {p \in party_ids : party_table[p].exists}
        submitted_party_ids == {row[1] : row \in {r \in feedback_table :
                                                     r[2] = a.user_id}}
    IN  IF a.fails = "party_member"
        THEN [raised |-> "RuntimeError", items |-> <<>>]
        ELSE IF party_ids = {} THEN [raised |-> "none", items |-> <<>>]
        ELSE IF a.fails \in {"party", "feedback"}
        THEN [raised |-> "RuntimeError", items |-> <<>>]
        ELSE MyPartyItems(party_res, party_table, submitted_party_ids, a.now)

\* the days at which the call is made; the party of the model ends on day 10
Days == {9, 10, 11, 12, 13}

MyPartiesArgs ==
    [user_id : Users, now : Days,
     fails : {"none", "party_member", "party", "feedback"}]

\* feedback/router.py:27-36  a call of get_my_parties
GetMyParties ==
    /\ my_ret = <<>>
    /\ \E a \in MyPartiesArgs :
        /\ my_args' = a
        /\ my_ret' = get_my_parties(a, party_member, party_tbl, feedback)
    /\ UNCHANGED <<feedbackVars, fnVars, rankVars, partyVars, botVars>>

\* ------------------------------------------- auth/service.py: the accounts
\* auth/service.py:226-229, 157-169  the first login of a user inserts the
\* user_profile row, with sportsmanship 0.0
LoginWithKakao(u) ==
    /\ user_profile[u] = NoRow
    /\ user_profile' = [user_profile EXCEPT ![u] = 0]
    /\ UNCHANGED <<party_member, feedback, submitted, profile0, pc, result>>
    /\ UNCHANGED <<callVars, fnVars, rankVars, restVars>>

\* auth/service.py:291-298  the user_profile row is deleted
DeleteUser(u) ==
    /\ user_profile[u] # NoRow
    /\ user_profile' = [user_profile EXCEPT ![u] = NoRow]
    /\ UNCHANGED <<party_member, feedback, submitted, profile0, pc, result>>
    /\ UNCHANGED <<callVars, fnVars, rankVars, restVars>>

\* --------------------------------------------------------- specifications
\* one worker serving submit_feedback requests one after another
Init == InitFeedback /\ FnIdle /\ RankIdle /\ RestIdle

Next ==
    \/ Submit("c1", MaxRatings)
    \/ CheckMembership("c1")
    \/ UpsertFeedback("c1")
    \/ ReadTemp("c1")
    \/ WriteTemp("c1")
    \/ Return("c1")

Spec == Init /\ [][Next]_vars

\* two submit_feedback requests in flight together
NextRace ==
    \/ \E c \in Procs : Submit(c, RaceMaxRatings)
    \/ \E c \in Procs : CheckMembership(c)
    \/ \E c \in Procs : UpsertFeedback(c)
    \/ \E c \in Procs : ReadTemp(c)
    \/ \E c \in Procs : WriteTemp(c)

SpecRace == Init /\ [][NextRace]_vars

\* _update_manner_temp on its own
InitFnSpec ==
    /\ user_profile = [u \in Users |-> Null]
    /\ profile0 = user_profile
    /\ party_member = {MemberRow(1, "p1", "u1", "joined")}
    /\ feedback = {}
    /\ submitted = <<>>
    /\ Idle
    /\ InitFn
    /\ RankIdle
    /\ RestIdle

NextFn == CallUpdateMannerTemp

SpecFn == InitFnSpec /\ [][NextFn]_vars

\* requests that send no rating, and _update_manner_temp on an empty list
InitNoRatings ==
    /\ InitFeedback
    /\ fn_cur \in FnScores
    /\ fn_ratings = <<>>
    /\ fn_out = Null
    /\ RankIdle
    /\ RestIdle

NextNoRatings ==
    \/ Submit("c1", 0)
    \/ Return("c1")
    \/ CallUpdateMannerTemp

SpecNoRatings == InitNoRatings /\ [][NextNoRatings]_vars

\* one call of a ranking function
InitRank ==
    /\ user_profile = [u \in Users |-> Null]
    /\ profile0 = user_profile
    /\ party_member = {MemberRow(1, "p1", "u1", "joined")}
    /\ feedback = {}
    /\ submitted = <<>>
    /\ Idle
    /\ FnIdle
    /\ RankIdle
    /\ RestIdle

NextRank ==
    \/ GetProfiledFacilities
    \/ GetNearbyParties

SpecRank == InitRank /\ [][NextRank]_vars

\* the ranking calls, the accounts and the feedback requests of one worker
\* side by side, on few arguments
FacilityRow(cd) == CHOOSE r \in FacilityRows : r.faci_cd = cd
PartyRow(id) == CHOOSE r \in PartyRows : r.id = id

ReadOnlyFacilityArgs ==
    [user_lat : {0}, user_lon : {0},
     preferred_sports : {<<TextASpaceB>>},
     age : {25},
     gender : {"M"},
     preferred_intensity : {"low"},
     limit : {5},
     weather_indoor_only : BOOLEAN,
     facilities : {<<FacilityRow("f3"), FacilityRow("f1")>>,
                   <<FacilityRow("f2"), FacilityRow("f4"), FacilityRow("f1")>>},
     exercise_methods : {ExerciseRows},
     sports_pref : {SportsPrefRows},
     fails : {"none"}]

ReadOnlyPartyArgs ==
    [user_lat : {0}, user_lon : {0},
     max_distance_km : {5000},
     limit : {5},
     parties : {<<PartyRow("q5"), PartyRow("q1"), PartyRow("q2")>>,
                <<PartyRow("q3"), PartyRow("q4")>>},
     fails : {"none"}]

InitReadOnly ==
    /\ user_profile = [u \in Users |-> IF u = "u1" THEN Null ELSE NoRow]
    /\ profile0 = user_profile
    /\ party_member = {MemberRow(1, "p1", "u1", "joined")}
    /\ feedback = {}
    /\ submitted = <<>>
    /\ Idle
    /\ FnIdle
    /\ RankIdle
    /\ RestIdle

NextReadOnly ==
    \/ Submit("c1", ReadOnlyRatings)
    \/ CheckMembership("c1")
    \/ UpsertFeedback("c1")
    \/ ReadTemp("c1")
    \/ WriteTemp("c1")
    \/ Return("c1")
    \/ \E u \in Users : LoginWithKakao(u)
    \/ \E u \in Users : DeleteUser(u)
    \/ GetProfiledFacilitiesOf(ReadOnlyFacilityArgs)
    \/ GetNearbyPartiesOf(ReadOnlyPartyArgs)

SpecReadOnly == InitReadOnly /\ [][NextReadOnly]_vars

\* one call of get_profiled_facilities followed step by step, each of its
\* fetches failing or not
StepFacilityArgs ==
    [user_lat : {0}, user_lon : {0},
     preferred_sports : {<<>>},
     age : {NoAge, 25},
     gender : {"", "M"},
     preferred_intensity : {""},
     limit : {5},
     weather_indoor_only : BOOLEAN,
     facilities : SeqsUpTo(FacilityRows, MaxStepRows),
     exercise_methods : {ExerciseRows},
     sports_pref : {SportsPrefRows},
     fails : {"none", "facilities", "exercise_methods", "weather", "sports_pref"}]

NextSteps ==
    \/ CallProfiledFacilities(StepFacilityArgs)
    \/ FetchAllFacilities
    \/ FetchExerciseMethods
    \/ IsIndoorOnly
    \/ FetchAgeGenderPrefSports
    \/ ScoreFacilities
    \/ ReturnProfiled

SpecSteps == InitRank /\ [][NextSteps]_vars

\* one submit_feedback request and one get_my_parties call, on a party whose
\* end_at is any of the four kinds
EndAtValues ==
    {EndAt("aware", 10), EndAt("naive", 10), EndAt("text", 0), EndAt("null", 0)}

InitMyParties ==
    /\ user_profile = [u \in Users |-> Null]
    /\ profile0 = user_profile
    /\ party_member \in {{MemberRow(1, "p1", "u1", "joined")},
                          {MemberRow(1, "p1", "u1", "left")},
                          {MemberRow(1, "p1", "u1", "joined"),
                           MemberRow(2, "p1", "u2", "joined")}}
    /\ feedback = {}
    /\ submitted = <<>>
    /\ Idle
    /\ FnIdle
    /\ RankIdle
    /\ \E e \in EndAtValues :
        party_tbl = [p \in Parties |->
                        PartyRecord(Cardinality(JoinedRows(party_member, p)), e)]
    /\ MyIdle
    /\ PartyIdle
    /\ BotIdle

NextMyParties ==
    \/ Submit("c1", 1)
    \/ CheckMembership("c1")
    \/ UpsertFeedback("c1")
    \/ ReadTemp("c1")
    \/ WriteTemp("c1")
    \/ GetMyParties

SpecMyParties == InitMyParties /\ [][NextMyParties]_vars

\* create_party, join_party and leave_party requests served one after
\* another, from an empty store
InitParty ==
    /\ user_profile = [u \in Users |-> Null]
    /\ profile0 = user_profile
    /\ party_member = {}
    /\ feedback = {}
    /\ submitted = <<>>
    /\ Idle
    /\ FnIdle
    /\ RankIdle
    /\ party_tbl = [p \in Parties |-> NoParty]
    /\ MyIdle
    /\ PartyIdle
    /\ BotIdle

NextParty ==
    \/ PartyCall("c1", PartyOps, MaxPartyCalls)
    \/ InsertParty("c1")
    \/ InsertHost("c1")
    \/ SelectExisting("c1")
    \/ InsertMember("c1")
    \/ PatchMember("c1")
    \/ CountJoined("c1")
    \/ PatchCurrent("c1")
    \/ GetParty("c1")

SpecParty == InitParty /\ [][NextParty]_vars

\* join_party and leave_party requests in flight together, on a party as
\* create_party leaves it: its host u1 joined, current 1
InitPartyRace ==
    /\ user_profile = [u \in Users |-> Null]
    /\ profile0 = user_profile
    /\ party_member = {MemberRow(1, "p1", "u1", "joined")}
    /\ feedback = {}
    /\ submitted = <<>>
    /\ Idle
    /\ FnIdle
    /\ RankIdle
    /\ party_tbl = [p \in Parties |-> PartyRecord(1, EndAt("null", 0))]
    /\ MyIdle
    /\ PartyIdle
    /\ BotIdle

NextPartyRace ==
    \/ \E c \in Procs : PartyCall(c, {"join_party", "leave_party"}, RacePartyCalls)
    \/ \E c \in Procs : SelectExisting(c)
    \/ \E c \in Procs : InsertMember(c)
    \/ \E c \in Procs : PatchMember(c)
    \/ \E c \in Procs : CountJoined(c)
    \/ \E c \in Procs : PatchCurrent(c)
    \/ \E c \in Procs : GetParty(c)

SpecPartyRace == InitPartyRace /\ [][NextPartyRace]_vars

\* the agent called for one user message after another
NextBot ==
    \/ CallAgent
    \/ InvokeAgent
    \/ WaitBackoff

SpecBot == InitRank /\ [][NextBot]_vars

\* one call of get_profiled_facilities on texts and intensity tables chosen
\* for the matching of sports: "a<TAB>b" is a type written with a tab
TextATabB == <<"a", "\t", "b">>

MatchRows ==
    {FacilityRow("f1"), FacilityRow("f2"), FacilityRow("f3"),
     [faci_cd |-> "f5", faci_lat |-> 100, faci_lot |-> 0,
      ftype_nm |-> TextATabB, inout_gbn_nm |-> "indoor"]}

\* tables of exercise_methods: the short key first, the long key first, a
\* name that comes twice, three keys of which the tabbed one is first, and
\* no row
MatchExerciseTables ==
    {ExerciseRows,
     <<[sports_nm |-> TextASpaceB, intensity |-> "high"],
       [sports_nm |-> <<"b">>, intensity |-> "low"]>>,
     <<[sports_nm |-> <<"b">>, intensity |-> "low"],
       [sports_nm |-> TextAB, intensity |-> "mid"],
       [sports_nm |-> <<"B">>, intensity |-> "high"]>>,
     <<[sports_nm |-> TextATabB, intensity |-> "high"],
       [sports_nm |-> <<"b">>, intensity |-> "low"],
       [sports_nm |-> TextAB, intensity |-> "high"]>>,
     <<>>}

MatchArgs ==
    [user_lat : {0}, user_lon : {0},
     preferred_sports : {<<>>, <<TextASpaceB>>, <<TextC, TextAB>>, <<TextATabB>>},
     age : {NoAge},
     gender : {""},
     preferred_intensity : {"", "high", "low"},
     limit : {5},
     weather_indoor_only : {FALSE},
     facilities : {<<r>> : r \in MatchRows}
                  \cup {p \in MatchRows \X MatchRows : p[1] # p[2]},
     exercise_methods : MatchExerciseTables,
     sports_pref : {SportsPrefRows},
     fails : {"none"}]

NextMatch == GetProfiledFacilitiesOf(MatchArgs)

SpecMatch == InitRank /\ [][NextMatch]_vars

\* ------------------------------------------------------------ the claims
\* the ratings of one request that rate user u, in the order sent
RatingsOf(ratings, u) ==
    LET sel == SelectSeq(ratings, LAMBDA r : r.user_id = u)
    IN  [i \in 1..Len(sel) |-> sel[i].rating]

\* out is clamp(S + (total - 3n)/n, 0, 99) rounded to one decimal: a whole
\* number of tenths at most 0.05 away from the clamped value
NearestTenthOfClamp(S, ratings, out) ==
    LET n == Len(ratings)
        exact == S * n + 100 * (Sum(ratings) - 3 * n)
        lo == 0
        hi == 9900 * n
        clamped == IF exact < lo THEN lo ELSE IF exact > hi THEN hi ELSE exact
    IN  /\ out % 10 = 0
        /\ out * n - clamped <= 5 * n
        /\ clamped - out * n <= 5 * n

\* the requests on user_profile of request c, by kind and ratee
Requests(c, kind, u) ==
    {i \in 1..Len(io[c]) : io[c][i].op = kind /\ io[c][i].user_id = u}

Ratees(c) == {arg_ratings[c][i].user_id : i \in 1..Len(arg_ratings[c])}

\* the scores a user can end with when the requests update it one after
\* another, in the order they were submitted
RECURSIVE SerialOutcomes(_, _, _)
SerialOutcomes(S, order, u) ==
    IF order = <<>> THEN S
    ELSE LET scores == RatingsOf(arg_ratings[Head(order)], u)
             after == IF scores = <<>> THEN S
                      ELSE UNION {update_manner_temp(IF t = Null THEN 3650 ELSE t,
                                                     scores) : t \in S}
         IN  SerialOutcomes(after, Tail(order), u)

\* every request has returned and no request on the store has failed
AllServed ==
    /\ \A c \in Procs : pc[c] = "done" /\ result[c] = "ok"
    /\ \A c \in Procs : \A i \in 1..Len(io[c]) : io[c][i].ok

\* C1: when two submit_feedback requests that rate the same user have both
\* returned, the user's stored score is the one that results from applying
\* the two batches one after the other in submission order.
C1_NoLostUpdate ==
    AllServed =>
        \A u \in Users :
            (\A c \in Procs : u \in Ratees(c)) =>
                user_profile[u] \in SerialOutcomes({profile0[u]}, submitted, u)

\* C2: every stored score, and every score about to be written, lies in
\* [0, 99].
C2_ScoreInRange ==
    /\ \A u \in Users :
          user_profile[u] \in {NoRow, Null}
          \/ (0 <= user_profile[u] /\ user_profile[u] <= 9900)
    /\ \A c \in Procs : \A i \in 1..Len(io[c]) :
          io[c][i].op = "write" => (0 <= io[c][i].value /\ io[c][i].value <= 9900)

\* C2 witness: an update that would pass 99 (98.5 plus a positive delta) has
\* been written and the stored score is 99.
C2_Saturated ==
    \E c \in Procs : \E i \in 1..Len(io[c]) :
        /\ i > 1
        /\ io[c][i].op = "write" /\ io[c][i].ok
        /\ io[c][i - 1].op = "read" /\ io[c][i - 1].value = 9850
        /\ Sum(RatingsOf(arg_ratings[c], io[c][i].user_id))
              > 3 * Len(RatingsOf(arg_ratings[c], io[c][i].user_id))
        /\ io[c][i].value = 9900
        /\ user_profile[io[c][i].user_id] = 9900

\* C3: for a non-empty list, _update_manner_temp(S, ratings) is
\* clamp(S + (total - 3n)/n, 0, 99) rounded to one decimal; the three
\* examples of the specification give 37.5, 0 and 99.
C3_ClampRound ==
    (fn_out # Null /\ fn_ratings # <<>>) =>
        /\ NearestTenthOfClamp(fn_cur, fn_ratings, fn_out)
        /\ (fn_cur = 3650 /\ fn_ratings = <<4, 4, 5, 3>>) => fn_out = 3750
        /\ (fn_cur = 0 /\ fn_ratings = <<1, 1, 1, 1>>) => fn_out = 0
        /\ (fn_cur = 9900 /\ fn_ratings = <<5, 5, 5, 5>>) => fn_out = 9900

\* C3 witness: the call on (36.5, [4,4,5,3]) has returned 37.5.
C3_Example ==
    fn_cur = 3650 /\ fn_ratings = <<4, 4, 5, 3>> /\ fn_out = 3750

\* C4: in a request that has returned normally, the score of each distinct
\* ratee was read once and written once, and the value written is the update
\* of the value read by all of the ratee's ratings taken together.
C4_OnceEachFromAggregate ==
    \A c \in Procs :
        (pc[c] = "done" /\ result[c] = "ok") =>
            \A u \in Ratees(c) :
                /\ Cardinality(Requests(c, "read", u)) = 1
                /\ Cardinality(Requests(c, "write", u)) = 1
                /\ \A i \in Requests(c, "write", u) :
                      /\ i > 1
                      /\ io[c][i - 1].op = "read" /\ io[c][i - 1].user_id = u
                      /\ NearestTenthOfClamp(
                             IF io[c][i - 1].value = Null THEN 3650
                             ELSE io[c][i - 1].value,
                             RatingsOf(arg_ratings[c], u), io[c][i].value)

\* C5: _update_manner_temp(S, []) returns S, and a submit_feedback request
\* with no ratings returns normally and changes no feedback row and no score.
C5_EmptyIsNoOp ==
    /\ [](fn_out # Null /\ fn_ratings = <<>> => fn_out = fn_cur)
    /\ [][\A c \in Procs :
            (pc[c] = "idle" /\ pc'[c] # "idle" /\ arg_ratings'[c] = <<>>) =>
                /\ pc'[c] = "done" /\ result'[c] = "ok"
                /\ feedback' = feedback
                /\ user_profile' = user_profile]_vars

\* C5 witness: _update_manner_temp has returned on (36.55, []) and a request
\* with no ratings has returned.
C5_BothReturned ==
    /\ fn_cur = 3655 /\ fn_ratings = <<>> /\ fn_out = 3655
    /\ pc["c1"] = "done" /\ arg_ratings["c1"] = <<>> /\ result["c1"] = "ok"

AllNeutral == fn_ratings # <<>> /\ \A i \in 1..Len(fn_ratings) : fn_ratings[i] = 3

\* C6 as stated: for every S in [0, 99] a non-empty batch of ratings that are
\* all 3 returns S.
C6_NeutralKeepsAnyScore ==
    (fn_out # Null /\ AllNeutral /\ 0 <= fn_cur /\ fn_cur <= 9900) =>
        fn_out = fn_cur

\* C6 as amended: for every S in [0, 99] that has at most one decimal place,
\* a non-empty batch of ratings that are all 3 returns S.
C6_NeutralKeepsOneDecimalScore ==
    (fn_out # Null /\ AllNeutral /\ 0 <= fn_cur /\ fn_cur <= 9900
        /\ fn_cur % 10 = 0) =>
        fn_out = fn_cur

\* C6 witness: the call on (98.5, [3,3]) has returned 98.5.
C6_NeutralReturned ==
    fn_cur = 9850 /\ fn_ratings = <<3, 3>> /\ fn_out = 9850

\* C7: when the column read is null, the value sent to the store is
\* clamp(36.5 + delta, 0, 99) rounded to one decimal.
C7_BaselineWhenNull ==
    \A c \in Procs : \A i \in 1..Len(io[c]) :
        (i > 1 /\ io[c][i].op = "write" /\ io[c][i - 1].value = Null) =>
            NearestTenthOfClamp(3650,
                                RatingsOf(arg_ratings[c], io[c][i].user_id),
                                io[c][i].value)

\* C7 witness: a null column was read and the update from 36.5 is stored.
C7_WrittenFromBaseline ==
    \E c \in Procs : \E i \in 1..Len(io[c]) :
        /\ i > 1
        /\ io[c][i].op = "write" /\ io[c][i].ok
        /\ io[c][i - 1].op = "read" /\ io[c][i - 1].ok
        /\ io[c][i - 1].value = Null
        /\ user_profile[io[c][i].user_id] = io[c][i].value
        /\ io[c][i].value # 3650

\* C8: a request in which the read or the write of a ratee's score failed
\* ends with an error.
C8_FailureIsSurfaced ==
    \A c \in Procs :
        (pc[c] = "done" /\ \E i \in 1..Len(io[c]) : ~io[c][i].ok) =>
            result[c] = "error"

\* C9: a request that has ended either returned with its feedback rows
\* stored and every ratee's score written, or raised with nothing done.
C9_AllOrNothing ==
    \A c \in Procs :
        pc[c] = "done" =>
            \/ /\ result[c] = "ok"
               /\ \A u \in Ratees(c) :
                     /\ \E row \in feedback :
                           row[1] = arg_party[c] /\ row[2] = arg_rater[c]
                           /\ row[3] = u
                     /\ \E i \in Requests(c, "write", u) : io[c][i].ok
            \/ /\ result[c] = "error"
               /\ ratee_to_scores[c] = <<>>
               /\ io[c] = <<>>

\* whether list a is the leading part of list b
IsPrefix(a, b) == Len(a) <= Len(b) /\ a = SubSeq(b, 1, Len(a))

\* the most entries a limit allows: none when the limit is not positive
AtMost(limit) == IF limit > 0 THEN limit ELSE 0

\* C10: for any limit, a call that returns hands back at most limit entries
\* (none when the limit is not positive), and they are the leading part of
\* the ranked list.
C10_AtMostLimit ==
    /\ (rank_call = "get_profiled_facilities" /\ ~rank_ret.raised) =>
          /\ Len(rank_ret.list) <= AtMost(rank_args.limit)
          /\ IsPrefix(rank_ret.list, RankedFacilities(rank_args))
    /\ (rank_call = "get_nearby_parties" /\ ~rank_ret.raised) =>
          /\ Len(rank_ret.list) <= AtMost(rank_args.limit)
          /\ IsPrefix(rank_ret.list, RankedParties(rank_args))

\* a call of get_profiled_facilities, of get_nearby_parties, that returned
FacilitiesReturned == rank_call = "get_profiled_facilities" /\ ~rank_ret.raised
PartiesReturned == rank_call = "get_nearby_parties" /\ ~rank_ret.raised

\* the distance of the user of the call from a latitude and longitude
DistanceTo(lat, lon) == haversine(rank_args.user_lat, rank_args.user_lon, lat, lon)

\* the places of the fetched facility rows that the gate lets through and
\* whose coordinates parse
Eligible ==
    {i \in 1..Len(rank_args.facilities) :
        /\ rank_args.weather_indoor_only =>
               rank_args.facilities[i].inout_gbn_nm = "indoor"
        /\ rank_args.facilities[i].faci_lat # BadCoord
        /\ rank_args.facilities[i].faci_lot # BadCoord}

\* C11: when the indoor-only gate is true every returned facility has the
\* flag "indoor" (the source's "실내"), and the indoor_only returned with
\* the list is the gate that was applied.
C11_IndoorGate ==
    FacilitiesReturned =>
        /\ rank_ret.indoor_only = rank_args.weather_indoor_only
        /\ rank_ret.indoor_only =>
              \A i \in 1..Len(rank_ret.list) :
                  rank_ret.list[i].inout_gbn_nm = "indoor"

\* C11 witness: under the gate a call fetched an outdoor row and a row
\* without flag, both with coordinates, and returned an indoor facility.
C11_GateExcluded ==
    /\ FacilitiesReturned
    /\ rank_ret.indoor_only
    /\ Len(rank_ret.list) >= 1
    /\ \E i, j \in 1..Len(rank_args.facilities) :
          /\ rank_args.facilities[i].inout_gbn_nm = "outdoor"
          /\ rank_args.facilities[i].faci_lat # BadCoord
          /\ rank_args.facilities[j].inout_gbn_nm = ""
          /\ rank_args.facilities[j].faci_lat # BadCoord

\* whether the fetched rows carry pairwise different codes (ids)
DistinctCodes(rows, field) ==
    \A i, j \in 1..Len(rows) : rows[i][field] = rows[j][field] => i = j

\* the place of the row with code cd in the fetched rows
PlaceOf(rows, field, cd) == CHOOSE i \in 1..Len(rows) : rows[i][field] = cd

\* C12: the returned facilities are in order of falling composite score, and
\* two of them with equal score are in the order in which they were fetched.
C12_SortedStable ==
    FacilitiesReturned =>
        \A i, j \in 1..Len(rank_ret.list) :
            i < j =>
                /\ rank_ret.list[i].score >= rank_ret.list[j].score
                /\ (rank_ret.list[i].score = rank_ret.list[j].score
                    /\ DistinctCodes(rank_args.facilities, "faci_cd")) =>
                       PlaceOf(rank_args.facilities, "faci_cd",
                               rank_ret.list[i].faci_cd)
                       < PlaceOf(rank_args.facilities, "faci_cd",
                                 rank_ret.list[j].faci_cd)

\* C12 witness: three different facilities returned, the first two with
\* equal score, the third, which was fetched first, with a lower one.
C12_TieAndOrder ==
    /\ FacilitiesReturned
    /\ Len(rank_ret.list) = 3
    /\ DistinctCodes(rank_args.facilities, "faci_cd")
    /\ rank_ret.list[1].score = rank_ret.list[2].score
    /\ rank_ret.list[2].score > rank_ret.list[3].score
    /\ rank_args.facilities[1].faci_cd = rank_ret.list[3].faci_cd

\* C13: the distance sub-score (in thousandths) of a returned facility is 0
\* beyond 5 km, 1000 at the user's place and falls linearly in between; a
\* far facility is not removed: when the limit covers the fetched rows,
\* every row that passes the gate and the coordinate parse is returned.
C13_DistanceScore ==
    FacilitiesReturned =>
        /\ \A i \in 1..Len(rank_ret.list) :
              LET f == rank_ret.list[i]
                  d == DistanceTo(f.faci_lat, f.faci_lot)
              IN  /\ d > 5000 => f.detail_scores.distance = 0
                  /\ d = 0 => f.detail_scores.distance = 1000
                  /\ d <= 5000 =>
                        \* the nearest thousandth of (5000 - d) / 5000
                        /\ 2 * (5 * f.detail_scores.distance - (5000 - d)) <= 5
                        /\ 2 * ((5000 - d) - 5 * f.detail_scores.distance) <= 5
        /\ rank_args.limit >= Len(rank_args.facilities) =>
              Len(rank_ret.list) = Cardinality(Eligible)

\* C13 witness: a facility farther than 5 km, with distance sub-score 0, is
\* returned ahead of a nearer one, and a facility at the user's place, with
\* distance sub-score 1000, is returned too.
C13_FarRankedAhead ==
    /\ FacilitiesReturned
    /\ \E i, j \in 1..Len(rank_ret.list) :
          /\ i < j
          /\ DistanceTo(rank_ret.list[i].faci_lat, rank_ret.list[i].faci_lot) > 5000
          /\ rank_ret.list[i].detail_scores.distance = 0
          /\ DistanceTo(rank_ret.list[j].faci_lat, rank_ret.list[j].faci_lot) < 5000
          /\ rank_ret.list[j].detail_scores.distance > 0
    /\ \E k \in 1..Len(rank_ret.list) :
          /\ DistanceTo(rank_ret.list[k].faci_lat, rank_ret.list[k].faci_lot) = 0
          /\ rank_ret.list[k].detail_scores.distance = 1000

\* C14: the composite score of every returned facility is, to the three
\* decimals it is returned with, 0.20 distance + 0.20 preferred_sport
\* + 0.20 age + 0.20 gender + 0.05 intensity + 0.05 age_sports, and lies in
\* [0, 0.90] (scores in thousandths, the sum below times 5000).
C14_WeightedSum ==
    FacilitiesReturned =>
        \A i \in 1..Len(rank_ret.list) :
            LET f == rank_ret.list[i]
                s == f.detail_scores
                d == DistanceTo(f.faci_lat, f.faci_lot)
                dist_num == IF d < 5000 THEN 5000 - d ELSE 0
                sum == 200 * dist_num
                       + 5000 * (200 * s.preferred_sport + 200 * s.age
                                 + 200 * s.gender + 50 * s.intensity
                                 + 50 * s.age_sports)
            IN  /\ 2 * (5000 * f.score - sum) <= 5000
                /\ 2 * (sum - 5000 * f.score) <= 5000
                /\ f.score >= 0
                /\ f.score <= 900

\* C14 witness: one returned facility has every sub-score 1 and the score
\* 0.90, another has a score strictly between 0 and 0.90.
C14_FullScore ==
    /\ FacilitiesReturned
    /\ \E i, j \in 1..Len(rank_ret.list) :
          /\ rank_ret.list[i].score = 900
          /\ rank_ret.list[i].detail_scores.intensity = 1
          /\ rank_ret.list[j].score > 0
          /\ rank_ret.list[j].score < 900

\* the demographic preference sports of the call: those of the user's age
\* band and gender when both were supplied, none otherwise
DemographicSports ==
    IF rank_args.age # NoAge /\ rank_args.gender # ""
    THEN fetch_age_gender_pref_sports(rank_args.sports_pref,
                                      age_to_band(rank_args.age),
                                      rank_args.gender)
    ELSE {}

\* C15: in every returned facility the age, gender and age_sports
\* sub-scores are equal, 1 exactly when a demographic preference sport is
\* found in the normalized sport type, and 0 when age or gender is missing.
C15_DemographicTriple ==
    FacilitiesReturned =>
        \A i \in 1..Len(rank_ret.list) :
            LET f == rank_ret.list[i]
                s == f.detail_scores
                match == \E sp \in DemographicSports :
                             Contains(norm(sp), norm(f.ftype_nm))
            IN  /\ s.age = s.gender
                /\ s.gender = s.age_sports
                /\ s.age \in {0, 1}
                /\ s.age = 1 <=> match
                /\ (rank_args.age = NoAge \/ rank_args.gender = "") => s.age = 0

\* C15 witness: with age and gender supplied, one returned facility has the
\* three sub-scores 1 and another has them 0.
C15_MatchAndMiss ==
    /\ FacilitiesReturned
    /\ rank_args.age # NoAge
    /\ rank_args.gender # ""
    /\ \E i, j \in 1..Len(rank_ret.list) :
          /\ rank_ret.list[i].detail_scores.age = 1
          /\ rank_ret.list[i].detail_scores.age_sports = 1
          /\ rank_ret.list[j].detail_scores.gender = 0

\* the fetched rows whose two coordinate fields parse
ParsedRows(rows, lat, lon) ==
    SelectSeq(rows, LAMBDA r : r[lat] # BadCoord /\ r[lon] # BadCoord)

\* C16: a row whose coordinate does not parse is dropped silently: the call
\* raises only when a fetch fails, returns no such row, and returns what it
\* returns when the row is not fetched at all.
C16_BadRowDropped ==
    /\ rank_call = "get_profiled_facilities" =>
          /\ rank_ret.raised => rank_args.fails # "none"
          /\ \A i \in 1..Len(rank_ret.list) :
                /\ rank_ret.list[i].faci_lat # BadCoord
                /\ rank_ret.list[i].faci_lot # BadCoord
          /\ rank_ret = get_profiled_facilities(
                 [rank_args EXCEPT !.facilities =
                      ParsedRows(@, "faci_lat", "faci_lot")])
    /\ rank_call = "get_nearby_parties" =>
          /\ rank_ret.raised => rank_args.fails # "none"
          /\ \A i \in 1..Len(rank_ret.list) :
                /\ rank_ret.list[i].lat # BadCoord
                /\ rank_ret.list[i].lon # BadCoord
          /\ rank_ret = get_nearby_parties(
                 [rank_args EXCEPT !.parties = ParsedRows(@, "lat", "lon")])

\* C16 witness: a row with a bad coordinate was fetched between two good
\* rows, and the call returned both of them.
C16_SkippedBetween ==
    /\ FacilitiesReturned
    /\ Len(rank_args.facilities) = 3
    /\ rank_args.facilities[2].faci_lat = BadCoord
    /\ Len(rank_ret.list) = 2

C18_SortedByDistance ==
    PartiesReturned =>
        \A i, j \in 1..Len(rank_ret.list) :
            i < j =>
                /\ DistanceTo(rank_ret.list[i].lat, rank_ret.list[i].lon)
                       <= DistanceTo(rank_ret.list[j].lat, rank_ret.list[j].lon)
                /\ (DistanceTo(rank_ret.list[i].lat, rank_ret.list[i].lon)
                        = DistanceTo(rank_ret.list[j].lat, rank_ret.list[j].lon)
                    /\ DistinctCodes(rank_args.parties, "id")) =>
                       PlaceOf(rank_args.parties, "id", rank_ret.list[i].id)
                       < PlaceOf(rank_args.parties, "id", rank_ret.list[j].id)

\* C18 amended: the returned parties are in order of rising distance_km,
\* the distance rounded to two decimals of a kilometre, and two with equal
\* distance_km are in fetch order.
C18_SortedByDistanceKm ==
    PartiesReturned =>
        \A i, j \in 1..Len(rank_ret.list) :
            i < j =>
                /\ rank_ret.list[i].distance_km <= rank_ret.list[j].distance_km
                /\ (rank_ret.list[i].distance_km = rank_ret.list[j].distance_km
                    /\ DistinctCodes(rank_args.parties, "id")) =>
                       PlaceOf(rank_args.parties, "id", rank_ret.list[i].id)
                       < PlaceOf(rank_args.parties, "id", rank_ret.list[j].id)

\* C18 witness: three parties returned; the first two have equal
\* distance_km, the first being the farther one, and the third, fetched
\* first, has a greater distance_km.
C18_RoundedTie ==
    /\ PartiesReturned
    /\ Len(rank_ret.list) = 3
    /\ DistinctCodes(rank_args.parties, "id")
    /\ rank_ret.list[1].distance_km = rank_ret.list[2].distance_km
    /\ DistanceTo(rank_ret.list[1].lat, rank_ret.list[1].lon)
           > DistanceTo(rank_ret.list[2].lat, rank_ret.list[2].lon)
    /\ rank_ret.list[2].distance_km < rank_ret.list[3].distance_km
    /\ rank_args.parties[1].id = rank_ret.list[3].id

\* C19: the two ranking calls are read-only: the caller's preferred_sports
\* and the fetched rows are after the call what they were before it, and a
\* ranking call leaves the stored tables as they are; a stored score of a
\* user is changed by the write of submit_feedback for that ratee and by
\* nothing else (the account row being created or deleted aside).
C19_ReadOnly ==
    /\ [](rank_call = "get_profiled_facilities" =>
             rank_after = [preferred_sports |-> rank_args.preferred_sports,
                           facilities |-> rank_args.facilities])
    /\ [](rank_call = "get_nearby_parties" =>
             rank_after = [parties |-> rank_args.parties])
    /\ [][rank_call' # rank_call =>
             UNCHANGED <<user_profile, party_member, feedback>>]_vars
    /\ [][\A u \in Users :
             (/\ user_profile[u] # NoRow
              /\ user_profile'[u] # NoRow
              /\ user_profile'[u] # user_profile[u])
             => \E c \in Procs :
                    /\ pc[c] = "write"
                    /\ ratee_to_scores[c][idx[c]].user_id = u
                    /\ user_profile'[u] = new_temp[c]
                    /\ rank_call' = rank_call]_vars

\* C19 witness: a ranking call has returned facilities after a feedback
\* request changed the stored score of u1.
C19_RankedAfterUpdate ==
    /\ rank_call = "get_profiled_facilities"
    /\ Len(rank_ret.list) >= 1
    /\ user_profile["u1"] \notin {NoRow, Null, 0}
    /\ \E c \in Procs : \E i \in 1..Len(io[c]) :
          io[c][i].op = "write" /\ io[c][i].ok /\ io[c][i].user_id = "u1"

\* whether a fetch of the call fails: the fetch marked to fail, when the
\* call comes to make it
FetchFails ==
    \/ rank_args.fails \in {"facilities", "exercise_methods", "weather"}
    \/ rank_args.fails = "sports_pref" /\ rank_args.age # NoAge
       /\ rank_args.gender # ""

\* what a call has done before its k-th step
DoneBefore(k) == {rank_log[j] : j \in 1..(k - 1)}

MatchingEntries(intensity_map, ftype_nm) ==
    {i \in 1..Len(intensity_map) :
        Contains(intensity_map[i].key, norm(ftype_nm))}

\* C21: the intensity sub-score of a returned facility is 1 exactly when
\* preferred_intensity is supplied and the first entry of the intensity map
\* whose sport name is a substring of the facility's normalized type has
\* the preferred level; entries after it are not consulted, and the
\* sub-score is 0 when no intensity is supplied or no entry matches.
C21_FirstEntryWins ==
    FacilitiesReturned =>
        LET intensity_map == fetch_exercise_methods(rank_args.exercise_methods)
        IN  \A k \in 1..Len(rank_ret.list) :
                LET r == rank_ret.list[k]
                    hits == MatchingEntries(intensity_map, r.ftype_nm)
                    first_is_preferred ==
                        \E i \in hits :
                            /\ \A j \in hits : i <= j
                            /\ intensity_map[i].inten = rank_args.preferred_intensity
                IN  /\ r.detail_scores.intensity \in {0, 1}
                    /\ r.detail_scores.intensity = 1
                         <=> (rank_args.preferred_intensity # ""
                              /\ first_is_preferred)

\* C21 witness: a facility is returned with intensity sub-score 1 although
\* a later entry that also matches has another level, and one with
\* sub-score 0 although a later matching entry has the preferred level
C21_LaterEntryIgnored ==
    /\ FacilitiesReturned
    /\ LET intensity_map == fetch_exercise_methods(rank_args.exercise_methods)
           Later(r, same) ==
               \E i, j \in MatchingEntries(intensity_map, r.ftype_nm) :
                   /\ i < j
                   /\ (intensity_map[j].inten = rank_args.preferred_intensity)
                       = same
       IN  /\ \E k \in 1..Len(rank_ret.list) :
                /\ rank_ret.list[k].detail_scores.intensity = 1
                /\ Later(rank_ret.list[k], FALSE)
           /\ \E k \in 1..Len(rank_ret.list) :
                /\ rank_ret.list[k].detail_scores.intensity = 0
                /\ Later(rank_ret.list[k], TRUE)

\* a text with every whitespace character removed, in lower case
WhitespaceChars == {" ", "\t", "\n"}

StripAllWhitespace(text) ==
    LET kept == SelectSeq(text, LAMBDA ch : ch \notin WhitespaceChars)
    IN  [i \in 1..Len(kept) |-> Lower(kept[i])]

\* C22: the preferred_sport sub-score of a returned facility is 1 exactly
\* when some preferred sport of the caller is, after normalization, a
\* substring of the facility's normalized type, and 0 otherwise, where
\* normalization removes all whitespace characters and lower-cases.
C22_PreferredSport ==
    FacilitiesReturned =>
        \A k \in 1..Len(rank_ret.list) :
            LET r == rank_ret.list[k]
                found == \E i \in 1..Len(rank_args.preferred_sports) :
                             Contains(StripAllWhitespace(rank_args.preferred_sports[i]),
                                      StripAllWhitespace(r.ftype_nm))
            IN  r.detail_scores.preferred_sport = (IF found THEN 1 ELSE 0)

\* what db.py:46 gives instead: the sub-score is 1 exactly when a preferred
\* sport is found once the space characters are removed and the letters
\* lower-cased; a tab or a line break stays in the text
C22_PreferredSportSpacesOnly ==
    FacilitiesReturned =>
        \A k \in 1..Len(rank_ret.list) :
            LET r == rank_ret.list[k]
                Spaceless(text) ==
                    LET kept == SelectSeq(text, LAMBDA ch : ch # " ")
                    IN  [i \in 1..Len(kept) |-> Lower(kept[i])]
                found == \E i \in 1..Len(rank_args.preferred_sports) :
                             Contains(Spaceless(rank_args.preferred_sports[i]),
                                      Spaceless(r.ftype_nm))
            IN  r.detail_scores.preferred_sport = (IF found THEN 1 ELSE 0)

C24_FeedbackStatus ==
    [][my_ret = <<>> /\ my_ret' # <<>> /\ my_args'.fails = "none"
        => LET reported == {my_ret'.items[k].party_id : k \in 1..Len(my_ret'.items)}
               Claimed(p) ==
                   LET end_at == party_tbl[p].end_at
                   IN  IF \E row \in feedback : row[1] = p /\ row[2] = my_args'.user_id
                       THEN "submitted"
                       ELSE IF /\ end_at.kind \in {"aware", "naive"}
                               /\ end_at.t <= my_args'.now
                               /\ my_args'.now <= end_at.t + 2
                       THEN "available"
                       ELSE "expired"
           IN  /\ my_ret'.raised = "none"
               /\ reported = {p \in Parties :
                                 /\ party_tbl[p].exists
                                 /\ MemberRowsOf(party_member, p, my_args'.user_id) # {}}
               /\ \A k \in 1..Len(my_ret'.items) :
                    my_ret'.items[k].feedback_status
                        = Claimed(my_ret'.items[k].party_id)]_vars

\* what holds of the code: the statuses of a call that returns are the ones
\* of the claim
C24_ReturnedStatus ==
    [][my_ret = <<>> /\ my_ret' # <<>> /\ my_ret'.raised = "none"
        => \A k \in 1..Len(my_ret'.items) :
            LET p == my_ret'.items[k].party_id
                end_at == party_tbl[p].end_at
            IN  my_ret'.items[k].feedback_status
                 = IF \E row \in feedback : row[1] = p /\ row[2] = my_args'.user_id
                   THEN "submitted"
                   ELSE IF /\ end_at.kind = "aware"
                           /\ end_at.t <= my_args'.now
                           /\ my_args'.now <= end_at.t + 2
                   THEN "available"
                   ELSE "expired"]_vars

\* no create_party, join_party or leave_party request is in flight
PartyQuiet == \A c \in Procs : p_pc[c] \in {"idle", "done"}

\* a request of the given kind is in flight
PartyInFlight(c, op) == p_op[c] = op /\ p_pc[c] \notin {"idle", "done"}

\* the writes on party_member the request has issued so far
MemberWrites(c) ==
    {k \in 1..Len(p_log[c]) :
        p_log[c][k] \in {"POST party_member", "PATCH party_member"}}

\* C25: when every create_party, join_party and leave_party request made so
\* far has run to completion, the stored current of the party is the number
\* of its party_member rows with status joined, and the Party the last
\* request returned has that number as current and exactly the joined rows
\* as members.
C25_CurrentIsJoinedCount ==
    PartyQuiet =>
        /\ party_tbl["p1"].exists =>
             party_tbl["p1"].current = Cardinality(JoinedRows(party_member, "p1"))
        /\ p_pc["c1"] = "done" =>
             /\ p_ret["c1"].current = Cardinality(JoinedRows(party_member, "p1"))
             /\ p_ret["c1"].members = JoinedRows(party_member, "p1")

\* C25 witness: a leave_party request has returned a party of one member
\* while the table holds two rows, one of them left
C25_LeftNotCounted ==
    /\ p_pc["c1"] = "done"
    /\ p_op["c1"] = "leave_party"
    /\ p_ret["c1"].current = 1
    /\ party_tbl["p1"].current = 1
    /\ Cardinality(party_member) = 2

\* C26: with the requests served one after another there is at most one
\* party_member row per party and user; a join_party of a user who has
\* joined (the request has written no row itself) changes no row; a join_party of a user who has a row keeps that
\* row, and the row is joined when the request returns; a leave_party of a
\* user without a row issues no write.
C26_OneRowPerUser ==
    /\ [](\A u \in Users : Cardinality(MemberRowsOf(party_member, "p1", u)) <= 1)
    /\ [](\A c \in Procs :
            p_pc[c] = "done" /\ p_op[c] = "join_party"
            => \E row \in MemberRowsOf(party_member, "p1", p_user[c]) :
                   row.status = "joined")
    /\ [][\A c \in Procs :
            /\ (/\ PartyInFlight(c, "join_party")
                /\ MemberWrites(c) = {}
                /\ \E row \in MemberRowsOf(party_member, "p1", p_user[c]) :
                       row.status = "joined")
               => UNCHANGED <<party_member, party_tbl>>
            /\ (/\ PartyInFlight(c, "join_party")
                /\ MemberRowsOf(party_member, "p1", p_user[c]) # {})
               => {row.id : row \in party_member'} = {row.id : row \in party_member}
            /\ (/\ PartyInFlight(c, "leave_party")
                /\ MemberRowsOf(party_member, "p1", p_user[c]) = {})
               => /\ UNCHANGED <<party_member, party_tbl>>
                  /\ \A k \in 1..Len(p_log'[c]) :
                        p_log'[c][k] \in {"GET party_member",
                                          "GET party, party_member"}]_vars

\* C26 witness: a join_party of a user who had left has returned, having
\* set the one row of the user back to joined, after a leave_party of a
\* user without a row
C26_RejoinedSameRow ==
    /\ p_pc["c1"] = "done"
    /\ p_op["c1"] = "join_party"
    /\ p_log["c1"][2] = "PATCH party_member"
    /\ Cardinality(MemberRowsOf(party_member, "p1", p_user["c1"])) = 1
    /\ p_calls = MaxPartyCalls

\* C30: once all the join_party and leave_party requests that were in
\* flight together have completed, the stored current of the party is the
\* number of its party_member rows with status joined, and there is at most
\* one party_member row per party and user.
C30_RaceCurrentIsJoinedCount ==
    (PartyQuiet /\ p_calls > 0) =>
        /\ party_tbl["p1"].current = Cardinality(JoinedRows(party_member, "p1"))
        /\ \A u \in Users : Cardinality(MemberRowsOf(party_member, "p1", u)) <= 1

\* the two halves of C30 apart: the count, and the one row per user
C30_RaceCount ==
    (PartyQuiet /\ p_calls > 0) =>
        party_tbl["p1"].current = Cardinality(JoinedRows(party_member, "p1"))

C30_RaceOneRow ==
    (PartyQuiet /\ p_calls > 0) =>
        \A u \in Users : Cardinality(MemberRowsOf(party_member, "p1", u)) <= 1

RatedBefore(c) ==
    {row[3] : row \in {r \in feedback0[c] :
                          r[1] = arg_party[c] /\ r[2] = arg_rater[c]}}

\* C28: a submit_feedback request of a rater who has submitted feedback for
\* the party before does not change the score of a ratee it rated then:
\* the stored score stays what it was after the first submission, as the
\* feedback row of the (party, rater, ratee) stays one row.
C28_ResubmitKeepsScore ==
    [][\A c \in Procs : \A u \in RatedBefore(c) :
          (pc[c] # "idle" /\ pc'[c] # "idle" /\ user_profile[u] # NoRow)
          => user_profile'[u] = user_profile[u]]_vars

\* what holds of the code on a second submission: the feedback rows of a
\* (party, rater, ratee) stay one row, with the score sent last
C28_OneFeedbackRow ==
    \A r1 \in feedback : \A r2 \in feedback :
        (r1[1] = r2[1] /\ r1[2] = r2[2] /\ r1[3] = r2[3]) => r1 = r2

\* C29: a user whose user_profile row was made by login_with_kakao and whom
\* no feedback row rated when the request was submitted has the rating
\* batch of the request computed from the baseline 36.5.
C29_FirstBatchFromBaseline ==
    \A c \in Procs :
        pc[c] = "write" =>
            LET u == ratee_to_scores[c][idx[c]].user_id
            IN  (/\ profile0[u] = NoRow
                 /\ \A row \in feedback0[c] : row[3] # u)
                => current_temp[c] = 3650

====
